---- MODULE Spec2Model ----
(***************************************************************************)
(* Verification model of the AgriSense analysis core                       *)
(* (backend/utils/sentinel2Bands.js, backend/services/analysisEngine.js)   *)
(* and of the routes that call it.                                         *)
(*                                                                         *)
(* Numbers.  A band reflectance is the rational b / BandDen, held as the   *)
(* integer b.  An index is held in ten-thousandths (the code rounds every  *)
(* index to 4 decimals), so the code's 0.6 is 6000 here.  Arithmetic is    *)
(* exact: the IEEE-754 rounding error of the JavaScript doubles is not     *)
(* modelled.  JavaScript's undefined, null and NaN are the three values    *)
(* Undefined, Null and NaN, which lie outside every numeric range used.    *)
(***************************************************************************)
EXTENDS Integers, Sequences, FiniteSets, TLC

VARIABLES
    bandData,         \* the BandSample argument: B02, B03, B04, B08, B11
    weatherData,      \* the WeatherSnapshot argument, or absent (null)
    cropType,         \* farm.cropType
    cropStage,        \* req.body.cropStage || 'vegetative'
    existingSoilData, \* the manual / stored soil record argument
    healthData,       \* the HealthAssessment argument of the last call (NoHealth: none)
    db,               \* the stored documents the routes below write and read
    op,               \* the operation that ran last ("none" before any)
    ret,              \* what that operation returned
    farms             \* per farm: the objects its caller holds, and its last call

inputs == <<bandData, weatherData, cropType, cropStage, existingSoilData, farms>>
vars == <<bandData, weatherData, cropType, cropStage, existingSoilData,
          healthData, db, op, ret, farms>>

(***************************************************************************)
(* Bounds of the model                                                     *)
(***************************************************************************)
BandDen == 10   \* a band value b stands for the reflectance b / BandDen
MaxBand == 4    \* largest band value drawn
NegBand == 1    \* malformed (negative) band values drawn: -NegBand .. -1
MaxStored == 2  \* runs of a storing route in one behaviour

(***************************************************************************)
(* JavaScript values                                                       *)
(***************************************************************************)
Undefined == -2000000001
Null == -2000000002
NaN == -2000000003

IsNumber(x) == x # Undefined /\ x # Null /\ x # NaN

\* ToNumber as the relational operators apply it: null -> 0, undefined -> NaN
ToNumber(x) == IF x = Null THEN 0 ELSE IF x = Undefined THEN NaN ELSE x

\* a < b, a > b, a <= b, a >= b of JavaScript: false when either side is NaN
Lt(a, b) == ToNumber(a) # NaN /\ ToNumber(b) # NaN /\ ToNumber(a) < ToNumber(b)
Gt(a, b) == ToNumber(a) # NaN /\ ToNumber(b) # NaN /\ ToNumber(a) > ToNumber(b)
Le(a, b) == ToNumber(a) # NaN /\ ToNumber(b) # NaN /\ ToNumber(a) <= ToNumber(b)
Ge(a, b) == ToNumber(a) # NaN /\ ToNumber(b) # NaN /\ ToNumber(a) >= ToNumber(b)

\* Math.max(lo, Math.min(hi, x)): NaN goes through both
Clamp(lo, hi, x) == IF x = NaN THEN NaN
                    ELSE IF x < lo THEN lo ELSE IF x > hi THEN hi ELSE x

\* Let(v, F) is F(v), with v evaluated once
Let(v, F(_)) == CHOOSE r \in {F(x) : x \in {v}} : TRUE

(***************************************************************************)
(* Real values before rounding: (p - sqrt(q)) / d with d > 0, or NaN       *)
(* (d = 0).  A rational has q = 0.                                         *)
(***************************************************************************)
NaNVal == [p |-> 0, q |-> 0, d |-> 0]
Zero == [p |-> 0, q |-> 0, d |-> 1]
Frac(n, d) == IF d > 0 THEN [p |-> n, q |-> 0, d |-> d]
              ELSE [p |-> 0 - n, q |-> 0, d |-> 0 - d]

ISqrt(k) == CHOOSE a \in 0..k : a * a <= k /\ (a + 1) * (a + 1) > k

\* t * t >= k * 10^8, computed in base-10^4 limbs so that no product overflows
SqGe(t, k) ==
    LET t1 == t \div 10000
        t0 == t % 10000
    IN  t1 * t1 + (2 * t1 * t0 + (t0 * t0) \div 10000) \div 10000 >= k

RECURSIVE LeastSqGe(_, _, _)
\* the least t in lo..hi with t*t >= k*10^8, given that hi is one
LeastSqGe(lo, hi, k) ==
    IF lo >= hi THEN hi
    ELSE LET mid == (lo + hi) \div 2
         IN  IF SqGe(mid, k) THEN LeastSqGe(lo, mid, k)
             ELSE LeastSqGe(mid + 1, hi, k)

\* ceiling of 10^4 * sqrt(k)
CeilSqrt4(k) == LeastSqGe(10000 * ISqrt(k), 10000 * (ISqrt(k) + 1), k)

\* round with Math.floor in place of Math.round
roundDown(val) ==
    IF val.d = 0 THEN NaN
    ELSE IF val.q = 0 THEN (10000 * val.p) \div val.d
    ELSE (20000 * val.p - CeilSqrt4(4 * val.q)) \div (2 * val.d)

\* round dividing by 10^(decimals-1): the value comes out ten times too large
roundMismatched(val) ==
    IF val.d = 0 THEN NaN
    ELSE IF val.q = 0 THEN 10 * ((20000 * val.p + val.d) \div (2 * val.d))
    ELSE 10 * ((20000 * val.p + val.d - CeilSqrt4(4 * val.q)) \div (2 * val.d))

\* round(val, 4) in ten-thousandths: Math.round(val * 10^4), i.e.
\* floor(val * 10^4 + 1/2); with x = (p - sqrt q)/d this is
\* floor((2*10^4*p + d - 2*10^4*sqrt(q)) / (2d))
round(val) ==
    IF val.d = 0 THEN NaN
    ELSE IF val.q = 0 THEN (20000 * val.p + val.d) \div (2 * val.d)
    ELSE (20000 * val.p + val.d - CeilSqrt4(4 * val.q)) \div (2 * val.d)

(***************************************************************************)
(* Index calculators                                                       *)
(***************************************************************************)
computeNDVI(B04, B08) ==
    IF ~(IsNumber(B04) /\ IsNumber(B08)) THEN NaNVal
    ELSE IF B08 + B04 = 0 THEN Zero
    ELSE Frac(B08 - B04, B08 + B04)

\* denominator = B08 + 6*B04 - 7.5*B02 + 1, here times 2*BandDen
computeEVI(B02, B04, B08) ==
    IF ~(IsNumber(B02) /\ IsNumber(B04) /\ IsNumber(B08)) THEN NaNVal
    ELSE LET denominator == 2 * B08 + 12 * B04 - 15 * B02 + 2 * BandDen
         IN  IF denominator = 0 THEN Zero
             ELSE Frac(5 * (B08 - B04), denominator)

\* L = 0.5: denominator = B08 + B04 + L, here times 2*BandDen
computeSAVI(B04, B08) ==
    IF ~(IsNumber(B04) /\ IsNumber(B08)) THEN NaNVal
    ELSE LET denominator == 2 * B08 + 2 * B04 + BandDen
         IN  IF denominator = 0 THEN Zero
             ELSE Frac(3 * (B08 - B04), denominator)

computeNDWI(B03, B08) ==
    IF ~(IsNumber(B03) /\ IsNumber(B08)) THEN NaNVal
    ELSE IF B03 + B08 = 0 THEN Zero
    ELSE Frac(B03 - B08, B03 + B08)

computeNDMI(B08, B11) ==
    IF ~(IsNumber(B08) /\ IsNumber(B11)) THEN NaNVal
    ELSE IF B08 + B11 = 0 THEN Zero
    ELSE Frac(B08 - B11, B08 + B11)

computeBSI(B02, B04, B08, B11) ==
    IF ~(IsNumber(B02) /\ IsNumber(B04) /\ IsNumber(B08) /\ IsNumber(B11))
    THEN NaNVal
    ELSE LET numerator == (B11 + B04) - (B08 + B02)
             denominator == (B11 + B04) + (B08 + B02)
         IN  IF denominator = 0 THEN Zero ELSE Frac(numerator, denominator)

\* inner = (2*B08 + 1)^2 - 8*(B08 - B04), here times BandDen^2
\* the radicand with 8 * (B08 + B04) subtracted
MSAVIInnerSum(B04, B08) ==
    (2 * B08 + BandDen) * (2 * B08 + BandDen) - 8 * BandDen * (B08 + B04)

\* const inner = (2 * B08 + 1) ** 2 - 8 * (B08 - B04), in units of 1/BandDen^2
MSAVIInner(B04, B08) ==
    (2 * B08 + BandDen) * (2 * B08 + BandDen) - 8 * BandDen * (B08 - B04)

computeMSAVI(B04, B08) ==
    IF ~(IsNumber(B04) /\ IsNumber(B08)) THEN NaNVal
    ELSE LET inner == MSAVIInner(B04, B08)
         IN  IF inner < 0 THEN Zero
             ELSE [p |-> 2 * B08 + BandDen, q |-> inner, d |-> 2 * BandDen]

computeAllIndices(bands) ==
    [ndvi  |-> round(computeNDVI(bands.B04, bands.B08)),
     evi   |-> round(computeEVI(bands.B02, bands.B04, bands.B08)),
     savi  |-> round(computeSAVI(bands.B04, bands.B08)),
     ndwi  |-> round(computeNDWI(bands.B03, bands.B08)),
     ndmi  |-> round(computeNDMI(bands.B08, bands.B11)),
     bsi   |-> round(computeBSI(bands.B02, bands.B04, bands.B08, bands.B11)),
     msavi |-> round(computeMSAVI(bands.B04, bands.B08))]

(***************************************************************************)
(* Crop health                                                             *)
(***************************************************************************)
\* calculateHealthScore with the cold-weather test (temperature < 5) and the
\* bare-soil penalty left out
\* calculateHealthScore with the weather limits taken inclusively
calculateHealthScoreInclusive(indices, weather, crop) ==
    LET s0 == 50
        s1 == IF Gt(indices.ndvi, 6000) THEN s0 + 35
              ELSE IF Gt(indices.ndvi, 4000) THEN s0 + 25
              ELSE IF Gt(indices.ndvi, 2000) THEN s0 + 15
              ELSE s0 + 5
        s2 == IF Gt(indices.ndmi, 2000) THEN s1 + 15
              ELSE IF Gt(indices.ndmi, 0) THEN s1 + 10
              ELSE s1 + 3
        s3 == IF weather.present
                 /\ (Ge(weather.temperature, 40) \/ Le(weather.temperature, 5))
              THEN s2 - 10 ELSE s2
        s4 == IF weather.present
                 /\ (Ge(weather.humidity, 90) \/ Le(weather.humidity, 20))
              THEN s3 - 5 ELSE s3
        score == IF Gt(indices.bsi, 2000) THEN s4 - 10 ELSE s4
    IN  Clamp(0, 100, score)

calculateHealthScoreHotOnly(indices, weather, crop) ==
    LET s1 == IF Gt(indices.ndvi, 6000) THEN 85
              ELSE IF Gt(indices.ndvi, 4000) THEN 75
              ELSE IF Gt(indices.ndvi, 2000) THEN 65
              ELSE 55
        s2 == IF Gt(indices.ndmi, 2000) THEN s1 + 15
              ELSE IF Gt(indices.ndmi, 0) THEN s1 + 10
              ELSE s1 + 3
        s3 == IF weather.present /\ Gt(weather.temperature, 40) THEN s2 - 10 ELSE s2
        s4 == IF weather.present
                 /\ (Gt(weather.humidity, 90) \/ Lt(weather.humidity, 20))
              THEN s3 - 5 ELSE s3
    IN  Clamp(0, 100, s4)

\* calculateHealthScore without the `if (weather)` guard
calculateHealthScoreUnguarded(indices, weather, crop) ==
    LET s1 == IF Gt(indices.ndvi, 6000) THEN 85
              ELSE IF Gt(indices.ndvi, 4000) THEN 75
              ELSE IF Gt(indices.ndvi, 2000) THEN 65
              ELSE 55
        s2 == IF Gt(indices.ndmi, 2000) THEN s1 + 15
              ELSE IF Gt(indices.ndmi, 0) THEN s1 + 10
              ELSE s1 + 3
        s3 == IF Gt(weather.temperature, 40) \/ Lt(weather.temperature, 5)
              THEN s2 - 10 ELSE s2
        s4 == IF Gt(weather.humidity, 90) \/ Lt(weather.humidity, 20)
              THEN s3 - 5 ELSE s3
        score == IF Gt(indices.bsi, 2000) THEN s4 - 10 ELSE s4
    IN  Clamp(0, 100, score)

\* the sum with 20 taken off for an extreme temperature
HealthScoreSumHarsh(indices, weather, crop) ==
    LET s0 == 50
        s1 == IF Gt(indices.ndvi, 6000) THEN s0 + 35
              ELSE IF Gt(indices.ndvi, 4000) THEN s0 + 25
              ELSE IF Gt(indices.ndvi, 2000) THEN s0 + 15
              ELSE s0 + 5
        s2 == IF Gt(indices.ndmi, 2000) THEN s1 + 15
              ELSE IF Gt(indices.ndmi, 0) THEN s1 + 10
              ELSE s1 + 3
        s3 == IF weather.present
                 /\ (Gt(weather.temperature, 40) \/ Lt(weather.temperature, 5))
              THEN s2 - 20 ELSE s2
        s4 == IF weather.present
                 /\ (Gt(weather.humidity, 90) \/ Lt(weather.humidity, 20))
              THEN s3 - 5 ELSE s3
        score == IF Gt(indices.bsi, 2000) THEN s4 - 10 ELSE s4
    IN  score

\* let score = 50 and the += / -= steps, before the clamp
HealthScoreSum(indices, weather, crop) ==
    LET s0 == 50
        s1 == IF Gt(indices.ndvi, 6000) THEN s0 + 35
              ELSE IF Gt(indices.ndvi, 4000) THEN s0 + 25
              ELSE IF Gt(indices.ndvi, 2000) THEN s0 + 15
              ELSE s0 + 5
        s2 == IF Gt(indices.ndmi, 2000) THEN s1 + 15
              ELSE IF Gt(indices.ndmi, 0) THEN s1 + 10
              ELSE s1 + 3
        s3 == IF weather.present
                 /\ (Gt(weather.temperature, 40) \/ Lt(weather.temperature, 5))
              THEN s2 - 10 ELSE s2
        s4 == IF weather.present
                 /\ (Gt(weather.humidity, 90) \/ Lt(weather.humidity, 20))
              THEN s3 - 5 ELSE s3
        score == IF Gt(indices.bsi, 2000) THEN s4 - 10 ELSE s4
    IN  score

\* Math.max(0, Math.min(100, Math.round(score)))
calculateHealthScore(indices, weather, crop) ==
    Clamp(0, 100, HealthScoreSum(indices, weather, crop))

\* identifyProblems as one else-if chain: the first rule that qualifies wins
identifyProblemsEarlyExit(indices, weather) ==
    IF Lt(indices.ndvi, 2000)
    THEN <<[type |-> "low_ndvi", severity |-> "high",
            message |-> "Very low vegetation activity. Possible crop failure or bare field."]>>
    ELSE IF Lt(indices.ndvi, 4000)
    THEN <<[type |-> "low_ndvi", severity |-> "medium",
            message |-> "Below-average vegetation. Check for nutrient deficiency or disease."]>>
    ELSE IF Lt(indices.ndmi, -1000)
    THEN <<[type |-> "water_stress", severity |-> "high",
            message |-> "Severe water stress detected. Immediate irrigation needed."]>>
    ELSE IF Lt(indices.ndmi, 1000)
    THEN <<[type |-> "water_stress", severity |-> "medium",
            message |-> "Moderate water stress. Consider increasing irrigation."]>>
    ELSE IF Gt(indices.bsi, 3000)
    THEN <<[type |-> "bare_soil", severity |-> "high",
            message |-> "Significant bare soil. Low crop coverage."]>>
    ELSE IF weather.present /\ Gt(weather.humidity, 85) /\ Gt(weather.temperature, 20)
    THEN <<[type |-> "disease_risk", severity |-> "medium",
            message |-> "Warm humid conditions. Fungal disease risk elevated."]>>
    ELSE <<>>

identifyProblems(indices, weather) ==
    (IF Lt(indices.ndvi, 2000)
     THEN <<[type |-> "low_ndvi", severity |-> "high",
             message |-> "Very low vegetation activity. Possible crop failure or bare field."]>>
     ELSE IF Lt(indices.ndvi, 4000)
     THEN <<[type |-> "low_ndvi", severity |-> "medium",
             message |-> "Below-average vegetation. Check for nutrient deficiency or disease."]>>
     ELSE <<>>)
    \o
    (IF Lt(indices.ndmi, -1000)
     THEN <<[type |-> "water_stress", severity |-> "high",
             message |-> "Severe water stress detected. Immediate irrigation needed."]>>
     ELSE IF Lt(indices.ndmi, 1000)
     THEN <<[type |-> "water_stress", severity |-> "medium",
             message |-> "Moderate water stress. Consider increasing irrigation."]>>
     ELSE <<>>)
    \o
    (IF Gt(indices.bsi, 3000)
     THEN <<[type |-> "bare_soil", severity |-> "high",
             message |-> "Significant bare soil. Low crop coverage."]>>
     ELSE <<>>)
    \o
    (IF weather.present /\ Gt(weather.humidity, 85) /\ Gt(weather.temperature, 20)
     THEN <<[type |-> "disease_risk", severity |-> "medium",
             message |-> "Warm humid conditions. Fungal disease risk elevated."]>>
     ELSE <<>>)

\* `${cropType}: Consider nitrogen top-dressing to boost growth.`
NitrogenRec(crop) ==
    IF crop = "wheat" THEN "wheat: Consider nitrogen top-dressing to boost growth."
    ELSE "rice: Consider nitrogen top-dressing to boost growth."

\* `${cropType}: Sparse canopy detected. Check for nutrient deficiency.`
SparseCanopyRec(crop) ==
    IF crop = "potato" THEN "potato: Sparse canopy detected. Check for nutrient deficiency."
    ELSE IF crop = "tomato" THEN "tomato: Sparse canopy detected. Check for nutrient deficiency."
    ELSE "onion: Sparse canopy detected. Check for nutrient deficiency."

\* getCropSpecificRecs with the break after the wheat / rice case missing:
\* control falls through into the cotton case
getCropSpecificRecsFallThrough(crop, indices) ==
    IF crop \in {"wheat", "rice"}
    THEN (IF Lt(indices.ndvi, 5000) THEN <<NitrogenRec(crop)>> ELSE <<>>)
         \o (IF Lt(indices.ndmi, 1000)
             THEN <<"Cotton: Ensure consistent moisture during boll development.">>
             ELSE <<>>)
    ELSE IF crop = "cotton"
    THEN (IF Lt(indices.ndmi, 1000)
          THEN <<"Cotton: Ensure consistent moisture during boll development.">>
          ELSE <<>>)
    ELSE IF crop = "sugarcane"
    THEN (IF Gt(indices.ndvi, 7000)
          THEN <<"Sugarcane: Good canopy development. Monitor for borer infestation.">>
          ELSE <<>>)
    ELSE IF crop \in {"potato", "tomato", "onion"}
    THEN (IF Gt(indices.bsi, 2000) THEN <<SparseCanopyRec(crop)>> ELSE <<>>)
    ELSE <<>>

getCropSpecificRecs(crop, indices) ==
    IF crop \in {"wheat", "rice"}
    THEN (IF Lt(indices.ndvi, 5000) THEN <<NitrogenRec(crop)>> ELSE <<>>)
    ELSE IF crop = "cotton"
    THEN (IF Lt(indices.ndmi, 1000)
          THEN <<"Cotton: Ensure consistent moisture during boll development.">>
          ELSE <<>>)
    ELSE IF crop = "sugarcane"
    THEN (IF Gt(indices.ndvi, 7000)
          THEN <<"Sugarcane: Good canopy development. Monitor for borer infestation.">>
          ELSE <<>>)
    ELSE IF crop \in {"potato", "tomato", "onion"}
    THEN (IF Gt(indices.bsi, 2000) THEN <<SparseCanopyRec(crop)>> ELSE <<>>)
    ELSE <<>>

\* the recommendations with || in the condition of the maintain message
generateCropRecommendationsEither(indices, weather, crop, problems) ==
    LET hasWaterStress == \E i \in DOMAIN problems : problems[i].type = "water_stress"
        hasLowNdvi == \E i \in DOMAIN problems : problems[i].type = "low_ndvi"
    IN  (IF hasWaterStress
         THEN <<"Increase irrigation frequency. Consider drip irrigation for water efficiency.",
                "Apply mulch to retain soil moisture.">>
         ELSE <<>>)
        \o
        (IF hasLowNdvi
         THEN <<"Conduct field inspection for disease or pest damage.",
                "Consider foliar application of balanced NPK fertilizer.">>
         ELSE <<>>)
        \o
        (IF Gt(indices.ndvi, 6000) \/ Gt(indices.ndmi, 2000)
         THEN <<"Crop is healthy. Maintain current management practices.">>
         ELSE <<>>)
        \o
        (IF weather.present /\ Gt(weather.rainfall, 30)
         THEN <<"Heavy rainfall expected. Ensure proper field drainage.">>
         ELSE <<>>)
        \o
        (IF weather.present /\ Gt(weather.temperature, 35)
         THEN <<"Heat stress risk. Schedule irrigation during cooler hours.">>
         ELSE <<>>)
        \o
        getCropSpecificRecs(crop, indices)

generateCropRecommendations(indices, weather, crop, problems) ==
    LET hasWaterStress == \E i \in DOMAIN problems : problems[i].type = "water_stress"
        hasLowNdvi == \E i \in DOMAIN problems : problems[i].type = "low_ndvi"
    IN  (IF hasWaterStress
         THEN <<"Increase irrigation frequency. Consider drip irrigation for water efficiency.",
                "Apply mulch to retain soil moisture.">>
         ELSE <<>>)
        \o
        (IF hasLowNdvi
         THEN <<"Conduct field inspection for disease or pest damage.",
                "Consider foliar application of balanced NPK fertilizer.">>
         ELSE <<>>)
        \o
        (IF Gt(indices.ndvi, 6000) /\ Gt(indices.ndmi, 2000)
         THEN <<"Crop is healthy. Maintain current management practices.">>
         ELSE <<>>)
        \o
        (IF weather.present /\ Gt(weather.rainfall, 30)
         THEN <<"Heavy rainfall expected. Ensure proper field drainage.">>
         ELSE <<>>)
        \o
        (IF weather.present /\ Gt(weather.temperature, 35)
         THEN <<"Heat stress risk. Schedule irrigation during cooler hours.">>
         ELSE <<>>)
        \o
        getCropSpecificRecs(crop, indices)

\* the status thresholds with > in place of >=
StatusOfStrict(healthScore) ==
    IF Gt(healthScore, 75) THEN "healthy"
    ELSE IF Gt(healthScore, 50) THEN "moderate"
    ELSE IF Gt(healthScore, 25) THEN "poor"
    ELSE "critical"

\* the status with 'healthy' starting at 70
StatusOfLenient(healthScore) ==
    IF Ge(healthScore, 70) THEN "healthy"
    ELSE IF Ge(healthScore, 50) THEN "moderate"
    ELSE IF Ge(healthScore, 25) THEN "poor"
    ELSE "critical"

StatusOf(healthScore) ==
    IF Ge(healthScore, 75) THEN "healthy"
    ELSE IF Ge(healthScore, 50) THEN "moderate"
    ELSE IF Ge(healthScore, 25) THEN "poor"
    ELSE "critical"

analyzeCropHealth(bands, weather, crop) ==
    Let(computeAllIndices(bands), LAMBDA indices :
    Let(calculateHealthScore(indices, weather, crop), LAMBDA healthScore :
    Let(identifyProblems(indices, weather), LAMBDA problems :
        [indices |-> indices, healthScore |-> healthScore, problems |-> problems,
         recommendations |->
             generateCropRecommendations(indices, weather, crop, problems),
         status |-> StatusOf(healthScore)])))

(***************************************************************************)
(* Soil                                                                    *)
(***************************************************************************)
\* Math.round((ndvi + 1) / 2 * 100), clamped to [0,100]
VegetationCover(ndvi) ==
    IF ndvi = NaN THEN NaN ELSE Clamp(0, 100, (ndvi + 10000 + 100) \div 200)

\* Math.round((ndmi + 0.5) * 80), clamped to [0,100]
EstimatedMoisture(ndmi) ==
    IF ndmi = NaN THEN NaN ELSE Clamp(0, 100, (2 * (ndmi + 5000) + 125) \div 250)

\* calculateSoilHealthScore with a moisture bonus of 25 and no clamp
calculateSoilHealthScoreUnclamped(soil) ==
    LET s1 == IF Ge(soil.estimatedMoisture, 30) /\ Le(soil.estimatedMoisture, 70)
              THEN 75 ELSE 45
        s2 == IF Gt(soil.vegetationCover, 60) THEN s1 + 10 ELSE s1
        s3 == IF Ge(soil.ph, 60) /\ Le(soil.ph, 75) THEN s2 + 10 ELSE s2
        s4 == IF Gt(soil.organicMatter, 3) THEN s3 + 10 ELSE s3
    IN  IF Ge(soil.nitrogen, 200) THEN s4 + 5 ELSE s4

\* the soil score without the -5 for moisture outside [30,70]
calculateSoilHealthScoreNoPenalty(soil) ==
    LET s0 == 50
        s1 == IF Ge(soil.estimatedMoisture, 30) /\ Le(soil.estimatedMoisture, 70)
              THEN s0 + 15 ELSE s0
        s2 == IF Gt(soil.vegetationCover, 60) THEN s1 + 10 ELSE s1
        s3 == IF Ge(soil.ph, 60) /\ Le(soil.ph, 75) THEN s2 + 10 ELSE s2
        s4 == IF Gt(soil.organicMatter, 3) THEN s3 + 10 ELSE s3
        score == IF Ge(soil.nitrogen, 200) THEN s4 + 5 ELSE s4
    IN  Clamp(0, 100, score)

calculateSoilHealthScore(soil) ==
    LET s0 == 50
        s1 == IF Ge(soil.estimatedMoisture, 30) /\ Le(soil.estimatedMoisture, 70)
              THEN s0 + 15 ELSE s0 - 5
        s2 == IF Gt(soil.vegetationCover, 60) THEN s1 + 10 ELSE s1
        s3 == IF Ge(soil.ph, 60) /\ Le(soil.ph, 75) THEN s2 + 10 ELSE s2
        s4 == IF Gt(soil.organicMatter, 3) THEN s3 + 10 ELSE s3
        score == IF Ge(soil.nitrogen, 200) THEN s4 + 5 ELSE s4
    IN  Clamp(0, 100, score)

\* the rules on the manual record (ph is held in tenths: 5.5 is 55)
SoilRecordRecommendations(soil) ==
    (IF Lt(soil.ph, 55) THEN <<"Soil is acidic. Consider liming.">>
     ELSE IF Gt(soil.ph, 80) THEN <<"Soil is alkaline. Consider adding sulfur.">>
     ELSE <<>>)
    \o (IF Lt(soil.nitrogen, 150)
        THEN <<"Low nitrogen. Apply urea or ammonium sulfate.">> ELSE <<>>)
    \o (IF Lt(soil.phosphorus, 20)
        THEN <<"Low phosphorus. Apply superphosphate.">> ELSE <<>>)
    \o (IF Lt(soil.potassium, 150)
        THEN <<"Low potassium. Apply muriate of potash.">> ELSE <<>>)
    \o (IF Lt(soil.organicMatter, 2)
        THEN <<"Low organic matter. Add compost or green manure.">> ELSE <<>>)

\* the merge with the moisture proxy written under the manual key `moisture`
MergeSoilMoisture(soilData, indices) ==
    [ph |-> soilData.ph, nitrogen |-> soilData.nitrogen,
     phosphorus |-> soilData.phosphorus, potassium |-> soilData.potassium,
     moisture |-> EstimatedMoisture(indices.ndmi),
     organicMatter |-> soilData.organicMatter,
     moistureIndex |-> indices.ndmi, baresoilIndex |-> indices.bsi,
     vegetationCover |-> VegetationCover(indices.ndvi),
     estimatedMoisture |-> EstimatedMoisture(indices.ndmi)]

\* { ...(existingSoilData || {}), ...satelliteSoil }
MergeSoil(soilData, indices) ==
    [ph |-> soilData.ph, nitrogen |-> soilData.nitrogen,
     phosphorus |-> soilData.phosphorus, potassium |-> soilData.potassium,
     moisture |-> soilData.moisture, organicMatter |-> soilData.organicMatter,
     moistureIndex |-> indices.ndmi, baresoilIndex |-> indices.bsi,
     vegetationCover |-> VegetationCover(indices.ndvi),
     estimatedMoisture |-> EstimatedMoisture(indices.ndmi)]

analyzeSoil(bands, soilData) ==
    Let(computeAllIndices(bands), LAMBDA indices :
    Let(MergeSoil(soilData, indices), LAMBDA merged :
        [soilMetrics |-> merged, indices |-> indices,
         recommendations |->
            (IF Lt(merged.estimatedMoisture, 30)
             THEN <<"Soil appears dry. Increase irrigation.">> ELSE <<>>)
            \o (IF Gt(indices.bsi, 3000)
                THEN <<"High bare soil exposure. Consider cover cropping.">> ELSE <<>>)
            \o (IF soilData.present THEN SoilRecordRecommendations(soilData) ELSE <<>>),
         healthScore |-> calculateSoilHealthScore(merged)]))

(***************************************************************************)
(* Pest risk                                                               *)
(***************************************************************************)
Pests(crop) ==
    IF crop = "wheat"
    THEN <<[name |-> "Aphids", probability |-> 45], [name |-> "Rust", probability |-> 35]>>
    ELSE IF crop = "rice"
    THEN <<[name |-> "Stem Borer", probability |-> 50],
           [name |-> "Brown Plant Hopper", probability |-> 40]>>
    ELSE IF crop = "cotton"
    THEN <<[name |-> "Bollworm", probability |-> 55], [name |-> "Whitefly", probability |-> 40]>>
    ELSE IF crop = "corn"
    THEN <<[name |-> "Fall Armyworm", probability |-> 50],
           [name |-> "Corn Borer", probability |-> 35]>>
    ELSE IF crop = "tomato"
    THEN <<[name |-> "Fruit Borer", probability |-> 50],
           [name |-> "Leaf Miner", probability |-> 35]>>
    ELSE <<[name |-> "General Insects", probability |-> 30]>>

\* getPredictedPests with Math.floor in place of Math.round
getPredictedPestsFloor(crop, weather, riskLevel) ==
    LET base == Pests(crop)
        scaled(p) == IF riskLevel = "high" THEN (13 * p) \div 10
                     ELSE IF riskLevel = "medium" THEN p
                     ELSE (6 * p) \div 10
    IN  [i \in DOMAIN base |->
            [name |-> base[i].name,
             probability |-> IF scaled(base[i].probability) > 95 THEN 95
                             ELSE scaled(base[i].probability)]]

\* Math.min(95, Math.round(p.probability * multiplier)), multiplier 1.3, 1.0, 0.6
getPredictedPests(crop, weather, riskLevel) ==
    LET base == Pests(crop)
        scaled(p) == IF riskLevel = "high" THEN (13 * p + 5) \div 10
                     ELSE IF riskLevel = "medium" THEN p
                     ELSE (6 * p + 5) \div 10
    IN  [i \in DOMAIN base |->
            [name |-> base[i].name,
             probability |-> IF scaled(base[i].probability) > 95 THEN 95
                             ELSE scaled(base[i].probability)]]

getPreventionTips(crop, riskLevel) ==
    <<"Regular field scouting for early detection.",
      "Maintain field hygiene - remove crop residues.",
      "Use pheromone traps for insect monitoring.">>
    \o (IF riskLevel = "high"
        THEN <<"Consider preventive insecticide application.",
               "Install light traps for nocturnal pests.">>
        ELSE <<>>)
    \o (IF riskLevel = "medium"
        THEN <<"Monitor pest population thresholds before spraying.">>
        ELSE <<>>)

\* getTreatments with the chemical treatment at every level but low
getTreatmentsEager(crop, riskLevel) ==
    <<[method |-> "cultural"], [method |-> "biological"]>>
    \o (IF riskLevel # "low" THEN <<[method |-> "organic"]>> ELSE <<>>)
    \o (IF riskLevel # "low" THEN <<[method |-> "chemical"]>> ELSE <<>>)

\* each treatment by its method (description and timing are fixed texts)
getTreatments(crop, riskLevel) ==
    <<[method |-> "cultural"], [method |-> "biological"]>>
    \o (IF riskLevel # "low" THEN <<[method |-> "organic"]>> ELSE <<>>)
    \o (IF riskLevel = "high" THEN <<[method |-> "chemical"]>> ELSE <<>>)

\* the accumulated score with the two humidity steps exclusive (15 or 10)
PestRiskAccumulatedExclusive(health, weather, stage) ==
    LET r0 == 20
        r1 == IF weather.present /\ Ge(weather.temperature, 25) /\ Le(weather.temperature, 35)
              THEN r0 + 15 ELSE r0
        r3 == IF weather.present /\ Gt(weather.humidity, 85) THEN r1 + 10
              ELSE IF weather.present /\ Gt(weather.humidity, 70) THEN r1 + 15
              ELSE r1
        r4 == IF weather.present /\ Gt(weather.rainfall, 20) THEN r3 + 5 ELSE r3
        r5 == IF health.present
              THEN (IF Lt(health.indices.ndvi, 3000) THEN r4 + 15
                    ELSE IF Lt(health.indices.ndvi, 5000) THEN r4 + 8
                    ELSE r4)
              ELSE r4
    IN  IF stage \in {"flowering", "fruiting"} THEN r5 + 10 ELSE r5

\* the accumulated score with the second humidity comparison turned round
PestRiskAccumulatedFlipped(health, weather, stage) ==
    LET r0 == 20
        r1 == IF weather.present /\ Ge(weather.temperature, 25) /\ Le(weather.temperature, 35)
              THEN r0 + 15 ELSE r0
        r2 == IF weather.present /\ Gt(weather.humidity, 70) THEN r1 + 15 ELSE r1
        r3 == IF weather.present /\ Lt(weather.humidity, 85) THEN r2 + 10 ELSE r2
        r4 == IF weather.present /\ Gt(weather.rainfall, 20) THEN r3 + 5 ELSE r3
        r5 == IF health.present
              THEN (IF Lt(health.indices.ndvi, 3000) THEN r4 + 15
                    ELSE IF Lt(health.indices.ndvi, 5000) THEN r4 + 8
                    ELSE r4)
              ELSE r4
    IN  IF stage \in {"flowering", "fruiting"} THEN r5 + 10 ELSE r5

\* the accumulated (unclamped) score
PestRiskAccumulated(health, weather, stage) ==
    LET r0 == 20
        r1 == IF weather.present /\ Ge(weather.temperature, 25) /\ Le(weather.temperature, 35)
              THEN r0 + 15 ELSE r0
        r2 == IF weather.present /\ Gt(weather.humidity, 70) THEN r1 + 15 ELSE r1
        r3 == IF weather.present /\ Gt(weather.humidity, 85) THEN r2 + 10 ELSE r2
        r4 == IF weather.present /\ Gt(weather.rainfall, 20) THEN r3 + 5 ELSE r3
        r5 == IF health.present
              THEN (IF Lt(health.indices.ndvi, 3000) THEN r4 + 15
                    ELSE IF Lt(health.indices.ndvi, 5000) THEN r4 + 8
                    ELSE r4)
              ELSE r4
    IN  IF stage \in {"flowering", "fruiting"} THEN r5 + 10 ELSE r5

\* the risk level with strict thresholds
RiskLevelOfStrict(riskScore) ==
    IF riskScore > 70 THEN "high" ELSE IF riskScore > 40 THEN "medium" ELSE "low"

\* riskScore >= 70 ? 'high' : riskScore >= 40 ? 'medium' : 'low'
RiskLevelOf(riskScore) ==
    IF riskScore >= 70 THEN "high" ELSE IF riskScore >= 40 THEN "medium" ELSE "low"

\* the confidence with Math.floor in place of Math.round
ConfidenceOfFloor(riskScore) ==
    IF 60 + riskScore \div 5 > 100 THEN 100 ELSE 60 + riskScore \div 5

\* Math.min(100, 60 + Math.round(riskScore / 5))
ConfidenceOf(riskScore) ==
    IF 60 + (2 * riskScore + 5) \div 10 > 100 THEN 100
    ELSE 60 + (2 * riskScore + 5) \div 10

\* validUntil is held as the number of days after Date.now()
assessPestRisk(health, weather, crop, stage) ==
    Let(PestRiskAccumulated(health, weather, stage), LAMBDA riskScore :
    LET riskLevel == RiskLevelOf(riskScore)
    IN  [riskLevel |-> riskLevel,
         riskScore |-> IF riskScore > 100 THEN 100 ELSE riskScore,
         confidence |-> ConfidenceOf(riskScore),
         pestTypes |-> getPredictedPests(crop, weather, riskLevel),
         preventionTips |-> getPreventionTips(crop, riskLevel),
         treatments |-> getTreatments(crop, riskLevel),
         cropStage |-> stage,
         validUntil |-> 7])

(***************************************************************************)
(* Alerts.  expiresAt is held as the number of days after Date.now(); a    *)
(* title or message built from a template is the sequence of its parts.    *)
(***************************************************************************)
\* p.type.replace(/_/g, ' ')
Spaced(type) ==
    IF type = "low_ndvi" THEN "low ndvi"
    ELSE IF type = "water_stress" THEN "water stress"
    ELSE IF type = "bare_soil" THEN "bare soil"
    ELSE IF type = "disease_risk" THEN "disease risk"
    ELSE type

\* the score alert with healthScore <= 25 taken as critical
ScoreAlertsInclusive(farmId, userId, analysisResults) ==
    IF Le(analysisResults.healthScore, 25)
    THEN <<[farmId |-> farmId, userId |-> userId, type |-> "health",
            priority |-> "urgent", title |-> <<"Critical Crop Health">>,
            message |-> <<"Health score is critically low (",
                          ToString(analysisResults.healthScore),
                          "/100). Immediate attention needed.">>,
            expiresAt |-> 3]>>
    ELSE IF Lt(analysisResults.healthScore, 50)
    THEN <<[farmId |-> farmId, userId |-> userId, type |-> "health",
            priority |-> "warning", title |-> <<"Low Crop Health">>,
            message |-> <<"Health score is below average (",
                          ToString(analysisResults.healthScore), "/100).">>,
            expiresAt |-> 7]>>
    ELSE <<>>

\* the if / else if on analysisResults.healthScore
ScoreAlerts(farmId, userId, analysisResults) ==
    IF Lt(analysisResults.healthScore, 25)
    THEN <<[farmId |-> farmId, userId |-> userId, type |-> "health",
            priority |-> "urgent", title |-> <<"Critical Crop Health">>,
            message |-> <<"Health score is critically low (",
                          ToString(analysisResults.healthScore),
                          "/100). Immediate attention needed.">>,
            expiresAt |-> 3]>>
    ELSE IF Lt(analysisResults.healthScore, 50)
    THEN <<[farmId |-> farmId, userId |-> userId, type |-> "health",
            priority |-> "warning", title |-> <<"Low Crop Health">>,
            message |-> <<"Health score is below average (",
                          ToString(analysisResults.healthScore), "/100).">>,
            expiresAt |-> 7]>>
    ELSE <<>>

\* the problem alerts without the filter on severity
ProblemAlertsUnfiltered(farmId, userId, analysisResults) ==
    IF analysisResults.hasProblems
    THEN [i \in DOMAIN analysisResults.problems |->
            [farmId |-> farmId, userId |-> userId,
             type |-> IF analysisResults.problems[i].type = "water_stress"
                      THEN "soil" ELSE "health",
             priority |-> "urgent",
             title |-> <<"Alert: ", Spaced(analysisResults.problems[i].type)>>,
             message |-> <<analysisResults.problems[i].message>>,
             expiresAt |-> 3]]
    ELSE <<>>

\* problems.filter(p => p.severity === 'high').forEach(p => alerts.push(...))
ProblemAlerts(farmId, userId, analysisResults) ==
    IF analysisResults.hasProblems
    THEN LET high == SelectSeq(analysisResults.problems,
                               LAMBDA p : p.severity = "high")
         IN  [i \in DOMAIN high |->
                [farmId |-> farmId, userId |-> userId,
                 type |-> IF high[i].type = "water_stress" THEN "soil" ELSE "health",
                 priority |-> "urgent",
                 title |-> <<"Alert: ", Spaced(high[i].type)>>,
                 message |-> <<high[i].message>>,
                 expiresAt |-> 3]]
    ELSE <<>>

generateAlerts(farmId, userId, analysisResults) ==
    ScoreAlerts(farmId, userId, analysisResults)
    \o ProblemAlerts(farmId, userId, analysisResults)

\* the fields of a health assessment that generateAlerts reads
AssessmentOf(analysis) ==
    [healthScore |-> analysis.healthScore, hasProblems |-> TRUE,
     problems |-> analysis.problems]

(***************************************************************************)
(* Stored documents and the routes that write and read them                *)
(***************************************************************************)
InRange(x, lo, hi) == IsNumber(x) /\ lo <= x /\ x <= hi

\* satelliteDataSchema: bands min 0; indices min/max
SatelliteDataValid(bands, indices) ==
    /\ \A k \in DOMAIN bands : bands[k] = Undefined \/ InRange(bands[k], 0, bands[k])
    /\ InRange(indices.ndvi, -10000, 10000)
    /\ InRange(indices.evi, -10000, 100000)
    /\ InRange(indices.savi, -10000, 50000)
    /\ InRange(indices.ndwi, -10000, 10000)
    /\ InRange(indices.ndmi, -10000, 10000)
    /\ InRange(indices.bsi, -10000, 10000)
    /\ InRange(indices.msavi, -10000, 10000)

IssueEnum == {"low_ndvi", "water_stress", "nutrient_deficiency", "pest_damage"}
SeverityEnum == {"low", "medium", "high"}

\* cropHealthSchema: index min/max, healthScore 0..100, problemZones enums
CropHealthValid(indices, analysis) ==
    /\ InRange(indices.ndvi, -10000, 10000)
    /\ InRange(indices.evi, -10000, 100000)
    /\ InRange(indices.savi, -10000, 100000)
    /\ InRange(indices.ndwi, -10000, 10000)
    /\ InRange(indices.ndmi, -10000, 10000)
    /\ InRange(analysis.healthScore, 0, 100)
    /\ \A i \in DOMAIN analysis.problems :
          /\ analysis.problems[i].type \in IssueEnum
          /\ analysis.problems[i].severity \in SeverityEnum

NoHealth == [present |-> FALSE, indices |-> <<>>]
NoDoc == [present |-> FALSE, healthScore |-> Null]
EmptyDb == [satelliteData |-> FALSE, latestHealth |-> NoDoc, farmHealthScore |-> Null,
            pestRisks |-> <<>>, alerts |-> <<>>]

\* POST /api/crop-health/:farmId/analyze: what the handler leaves in the
\* database and what it answers
CropHealthAnalyzeOutcome(bands, weather, crop, before) ==
    Let(analyzeCropHealth(bands, weather, crop), LAMBDA analysis :
    Let(SatelliteDataValid(bands, analysis.indices), LAMBDA satOk :
    \* weatherConditions reads weather.temperature: a TypeError on null
    Let(satOk /\ weather.present /\ CropHealthValid(analysis.indices, analysis),
        LAMBDA healthOk :
        IF healthOk
        THEN [db |-> [before EXCEPT
                        !.satelliteData = TRUE,
                        !.latestHealth = [present |-> TRUE,
                                          healthScore |-> analysis.healthScore],
                        !.farmHealthScore = analysis.healthScore],
              res |-> [code |-> 200, status |-> analysis.status,
                       healthScore |-> analysis.healthScore]]
        ELSE [db |-> IF satOk THEN [before EXCEPT !.satelliteData = TRUE] ELSE before,
              res |-> [code |-> 500, status |-> "", healthScore |-> Null]])))

CropHealthAnalyzeRoute ==
    /\ op' = "cropHealthAnalyzeRoute"
    /\ \E out \in {CropHealthAnalyzeOutcome(bandData, weatherData, cropType, db)} :
          /\ db' = out.db
          /\ ret' = out.res
    /\ healthData' = NoHealth
    /\ UNCHANGED inputs

FarmIds == {"farm1", "farm2"}
UserIds == {"user1"}

\* pestRiskSchema: the enums and ranges
StageEnum == {"seedling", "vegetative", "flowering", "fruiting", "maturity"}
MethodEnum == {"chemical", "organic", "biological", "cultural"}

PestRiskValid(assessment, stage) ==
    /\ assessment.riskLevel \in {"low", "medium", "high"}
    /\ InRange(assessment.confidence, 0, 100)
    /\ \A i \in DOMAIN assessment.pestTypes :
          InRange(assessment.pestTypes[i].probability, 0, 100)
    /\ stage \in StageEnum
    /\ \A i \in DOMAIN assessment.treatments :
          assessment.treatments[i].method \in MethodEnum

\* the route's alert with the last predicted pest in place of the first
PestAlertLastPest(farmId, userId, crop, assessment) ==
    LET last == Len(assessment.pestTypes)
    IN  [farmId |-> farmId, userId |-> userId, type |-> "pest", priority |-> "urgent",
         title |-> <<"High Pest Risk Alert">>,
         message |-> <<"High pest risk (", ToString(assessment.riskScore), "/100) for ",
                       crop, ". ",
                       IF last > 0 THEN assessment.pestTypes[last].name ELSE "Pests",
                       " detected with ",
                       IF last > 0 THEN ToString(assessment.pestTypes[last].probability)
                       ELSE "0",
                       "% probability.">>,
         expiresAt |-> assessment.validUntil]

\* the alert the route builds for a high risk level
PestAlert(farmId, userId, crop, assessment) ==
    [farmId |-> farmId, userId |-> userId, type |-> "pest", priority |-> "urgent",
     title |-> <<"High Pest Risk Alert">>,
     message |-> <<"High pest risk (", ToString(assessment.riskScore), "/100) for ",
                   crop, ". ",
                   IF Len(assessment.pestTypes) > 0
                   THEN assessment.pestTypes[1].name ELSE "Pests",
                   " detected with ",
                   IF Len(assessment.pestTypes) > 0
                   THEN ToString(assessment.pestTypes[1].probability) ELSE "0",
                   "% probability.">>,
     expiresAt |-> assessment.validUntil]

\* POST /api/pest-risk/:farmId/assess: what the handler leaves in the
\* database and what it answers; stageParam is req.body.cropStage ("" when
\* the body has none)
PestRiskAssessOutcome(farmId, userId, bands, weather, crop, stageParam, before) ==
    Let(analyzeCropHealth(bands, weather, crop), LAMBDA analysis :
    Let(IF stageParam = "" THEN "vegetative" ELSE stageParam, LAMBDA stage :
    Let(assessPestRisk([present |-> TRUE, indices |-> analysis.indices],
                       weather, crop, stage), LAMBDA assessment :
        \* weatherFactors reads weather.temperature: a TypeError on null
        IF weather.present /\ PestRiskValid(assessment, stage)
        THEN [db |-> [before EXCEPT
                        !.pestRisks = Append(@, [riskLevel |-> assessment.riskLevel,
                                                 confidence |-> assessment.confidence,
                                                 cropStage |-> stage,
                                                 validUntil |-> assessment.validUntil]),
                        !.alerts = IF assessment.riskLevel = "high"
                                   THEN Append(@, PestAlert(farmId, userId, crop,
                                                            assessment))
                                   ELSE @],
              res |-> [code |-> 200, assessment |-> assessment]]
        ELSE [db |-> before, res |-> [code |-> 500, assessment |-> assessment]])))

PestRiskAssessRoute ==
    /\ Len(db.pestRisks) < MaxStored
    /\ op' = "pestRiskAssessRoute"
    /\ \E farmId \in FarmIds, userId \in UserIds :
       \E out \in {PestRiskAssessOutcome(farmId, userId, bandData, weatherData,
                                         cropType, cropStage, db)} :
          /\ db' = out.db
          /\ ret' = out.res
    /\ healthData' = NoHealth
    /\ UNCHANGED inputs

\* POST /api/satellite/analyze/:farmId: the full analysis pipeline; what the
\* handler leaves in the database and what it answers
PipelineOutcome(farmId, userId, bands, weather, crop, soilData, stageParam, before) ==
    Let(computeAllIndices(bands), LAMBDA indices :
    IF ~SatelliteDataValid(bands, indices)
    THEN [db |-> before, res |-> [code |-> 500]]
    ELSE
    Let(analyzeCropHealth(bands, weather, crop), LAMBDA cropHealth :
    Let(assessPestRisk([present |-> TRUE, indices |-> cropHealth.indices], weather, crop,
                       IF stageParam = "" THEN "vegetative" ELSE stageParam),
        LAMBDA pestRisk :
    Let(generateAlerts(farmId, userId, AssessmentOf(cropHealth)), LAMBDA alerts :
        [db |-> [before EXCEPT !.satelliteData = TRUE,
                               !.alerts = @ \o alerts,
                               !.farmHealthScore = cropHealth.healthScore],
         res |-> [code |-> 200, cropHealth |-> cropHealth,
                  soilAnalysis |-> analyzeSoil(bands, soilData),
                  pestRisk |-> pestRisk,
                  alertsGenerated |-> Len(alerts)]]))))

PipelineAnalyzeRoute ==
    /\ Len(db.alerts) < MaxStored
    /\ op' = "pipelineAnalyzeRoute"
    /\ \E farmId \in FarmIds, userId \in UserIds :
       \E out \in {PipelineOutcome(farmId, userId, bandData, weatherData, cropType,
                                   existingSoilData, cropStage, db)} :
          /\ db' = out.db
          /\ ret' = out.res
    /\ healthData' = NoHealth
    /\ UNCHANGED inputs

\* GET /api/dashboard: the farm summary
DashboardCall ==
    /\ op' = "dashboard"
    /\ ret' = [healthScore |-> db.farmHealthScore,
               healthStatus |-> IF db.latestHealth.present
                                THEN (IF Ge(db.latestHealth.healthScore, 75) THEN "healthy"
                                      ELSE IF Ge(db.latestHealth.healthScore, 50) THEN "moderate"
                                      ELSE IF Ge(db.latestHealth.healthScore, 25) THEN "poor"
                                      ELSE "critical")
                                ELSE "no-data"]
    /\ healthData' = NoHealth
    /\ UNCHANGED <<inputs, db>>

(***************************************************************************)
(* Calls of the analysis core                                              *)
(***************************************************************************)
ComputeAllIndicesCall ==
    /\ op' = "computeAllIndices"
    /\ ret' = computeAllIndices(bandData)
    /\ healthData' = NoHealth
    /\ UNCHANGED <<inputs, db>>

AnalyzeCropHealthCall ==
    /\ op' = "analyzeCropHealth"
    /\ ret' = analyzeCropHealth(bandData, weatherData, cropType)
    /\ healthData' = NoHealth
    /\ UNCHANGED <<inputs, db>>

AnalyzeSoilCall ==
    /\ op' = "analyzeSoil"
    /\ ret' = analyzeSoil(bandData, existingSoilData)
    /\ healthData' = NoHealth
    /\ UNCHANGED <<inputs, db>>

\* assessPestRisk(healthData, weather, cropType, cropStage): the routes pass the
\* analyzeCropHealth result; the function also accepts no health data
AssessPestRiskCall ==
    \E given \in BOOLEAN :
        /\ healthData' = IF given
                         THEN [present |-> TRUE,
                               indices |-> analyzeCropHealth(bandData, weatherData,
                                                             cropType).indices]
                         ELSE NoHealth
        /\ op' = "assessPestRisk"
        /\ ret' = assessPestRisk(healthData', weatherData, cropType, cropStage)
        /\ UNCHANGED <<inputs, db>>

(***************************************************************************)
(* Inputs                                                                  *)
(***************************************************************************)
NoWeather == [present |-> FALSE, temperature |-> 0, humidity |-> 0, rainfall |-> 0]
NoSoil == [present |-> FALSE, ph |-> Undefined, nitrogen |-> Undefined,
           phosphorus |-> Undefined, potassium |-> Undefined,
           moisture |-> Undefined, organicMatter |-> Undefined]

Bands(S) == [B02 : S, B03 : S, B04 : S, B08 : S, B11 : S]

\* the four bands the scores read; Green (B03) enters NDWI only
ScoreBands == [B02 : 0..MaxBand, B03 : {0}, B04 : 0..MaxBand,
               B08 : 0..MaxBand, B11 : 0..MaxBand]

Weathers(T, H, R) ==
    {NoWeather} \cup [present : {TRUE}, temperature : T, humidity : H, rainfall : R]

Start ==
    /\ farms = <<>>
    /\ healthData = NoHealth
    /\ db = EmptyDb
    /\ op = "none"
    /\ ret = <<>>

(***************************************************************************)
(* Spec: the analysis core called on a farm's inputs.  No operation reads  *)
(* both the weather / crop inputs and the soil record, so the inputs are   *)
(* drawn either with every weather, crop and stage and no soil record, or  *)
(* with every soil record and no weather.                                  *)
(***************************************************************************)
\* Red, NIR and SWIR1 over the grid, Blue and Green at one value
CoreBands == [B02 : {1}, B03 : {1}, B04 : 0..MaxBand,
              B08 : 0..MaxBand, B11 : 0..MaxBand]

\* NIR and SWIR1 over the grid (they decide the moisture proxy)
SoilBands == [B02 : {1}, B03 : {1}, B04 : {1}, B08 : 0..MaxBand, B11 : 0..MaxBand]

\* a soil record whose unset fields hold `unset`: Undefined in a request
\* body (manual route), Null in a stored farm (schema default)
SoilRecords(unset) ==
    [present : {TRUE}, ph : {unset, 50, 65, 85}, nitrogen : {unset, 100, 200},
     phosphorus : {unset, 10, 30}, potassium : {unset, 100, 200},
     moisture : {unset}, organicMatter : {unset, 1, 4}]

CropTypes == {"", "wheat", "soybean", "tomato"}
CropStages == {"vegetative", "flowering"}

Init ==
    /\ \/ /\ bandData \in CoreBands
          /\ weatherData \in Weathers({4, 30, 41}, {19, 50, 91}, {0, 31})
          /\ cropType \in CropTypes
          /\ cropStage \in CropStages
          /\ existingSoilData = NoSoil
       \/ /\ bandData \in SoilBands
          /\ weatherData = NoWeather
          /\ cropType = ""
          /\ cropStage = "vegetative"
          /\ existingSoilData \in SoilRecords(Undefined) \cup SoilRecords(Null)
    /\ Start

Next ==
    \/ ComputeAllIndicesCall
    \/ AnalyzeCropHealthCall
    \/ AnalyzeSoilCall
    \/ AssessPestRiskCall

Spec == Init /\ [][Next]_vars

(***************************************************************************)
(* SpecIndices: the index calculator over every band sample of the grid,   *)
(* malformed (negative) values included                                    *)
(***************************************************************************)
InitIndices ==
    /\ bandData \in Bands((0 - NegBand)..MaxBand)
    /\ weatherData = NoWeather
    /\ cropType = ""
    /\ cropStage = "vegetative"
    /\ existingSoilData = NoSoil
    /\ Start

NextIndices == ComputeAllIndicesCall

SpecIndices == InitIndices /\ [][NextIndices]_vars

\* Red and NIR from slightly negative up to reflectance 2, the other bands fixed
MSAVIBands == [B02 : {1}, B03 : {1}, B04 : (0 - NegBand)..(2 * BandDen),
               B08 : (0 - NegBand)..(2 * BandDen), B11 : {1}]

InitMSAVI ==
    /\ bandData \in MSAVIBands
    /\ weatherData = NoWeather
    /\ cropType = ""
    /\ cropStage = "vegetative"
    /\ existingSoilData = NoSoil
    /\ Start

NextMSAVI == ComputeAllIndicesCall

SpecMSAVI == InitMSAVI /\ [][NextMSAVI]_vars

(***************************************************************************)
(* SpecMissing: band samples with absent keys, as the manual soil route    *)
(* passes them ({}), through the index calculator and the soil analyzer    *)
(***************************************************************************)
InitMissing ==
    /\ bandData \in Bands({Undefined} \cup 0..MaxBand)
    /\ weatherData = NoWeather
    /\ cropType = ""
    /\ cropStage = "vegetative"
    /\ existingSoilData \in {NoSoil,
                             [present |-> TRUE, ph |-> 65, nitrogen |-> 200,
                              phosphorus |-> 30, potassium |-> 200,
                              moisture |-> Undefined, organicMatter |-> 4]}
    /\ Start

NextMissing == ComputeAllIndicesCall \/ AnalyzeSoilCall

SpecMissing == InitMissing /\ [][NextMissing]_vars

(***************************************************************************)
(* SpecSoil: the soil analyzer over manual and stored soil records         *)
(***************************************************************************)
InitSoil ==
    /\ bandData \in SoilBands
    /\ weatherData = NoWeather
    /\ cropType = ""
    /\ cropStage = "vegetative"
    /\ existingSoilData \in {NoSoil} \cup SoilRecords(Undefined) \cup SoilRecords(Null)
                            \cup {[r EXCEPT !.moisture = 35] : r \in SoilRecords(Undefined)}
    /\ Start

NextSoil == AnalyzeSoilCall

SpecSoil == InitSoil /\ [][NextSoil]_vars

(***************************************************************************)
(* SpecHealth: crop health analysis, its route and the dashboard           *)
(***************************************************************************)
InitHealth ==
    /\ bandData \in ScoreBands
    /\ weatherData \in Weathers({4, 21, 30, 36, 41}, {19, 50, 86, 91}, {0, 31})
    /\ cropType = "wheat"
    /\ cropStage = "vegetative"
    /\ existingSoilData = NoSoil
    /\ Start

NextHealth == AnalyzeCropHealthCall \/ CropHealthAnalyzeRoute \/ DashboardCall

SpecHealth == InitHealth /\ [][NextHealth]_vars

(***************************************************************************)
(* SpecAlerts: generateAlerts over health assessments, those the analyzer  *)
(* returns and those a caller may hand in                                  *)
(***************************************************************************)
\* the problem lists identifyProblems can return
ProblemLists ==
    {identifyProblems([ndvi |-> a, ndmi |-> b, bsi |-> c], w) :
        a \in {1000, 3000, 5000}, b \in {-2000, 0, 2000}, c \in {0, 4000},
        w \in {NoWeather,
               [present |-> TRUE, temperature |-> 30, humidity |-> 90, rainfall |-> 0]}}

AnalysisResults ==
    [healthScore : {0, 10, 24, 25, 49, 50, 100}, hasProblems : {TRUE},
     problems : ProblemLists]
    \cup [healthScore : {0, 10, 24, 25, 49, 50, 100}, hasProblems : {FALSE},
          problems : {<<>>}]

GenerateAlertsCall ==
    \E farmId \in FarmIds, userId \in UserIds,
       analysisResults \in AnalysisResults
           \cup {AssessmentOf(analyzeCropHealth(bandData, weatherData, cropType))} :
        /\ op' = "generateAlerts"
        /\ ret' = [farmId |-> farmId, userId |-> userId,
                   analysisResults |-> analysisResults,
                   alerts |-> generateAlerts(farmId, userId, analysisResults)]
        /\ healthData' = NoHealth
        /\ UNCHANGED <<inputs, db>>

InitAlerts ==
    /\ bandData \in [B02 : {1}, B03 : {1}, B04 : {0, MaxBand},
                     B08 : {0, MaxBand}, B11 : {0, MaxBand}]
    /\ weatherData \in Weathers({41}, {91}, {0})
    /\ cropType = "wheat"
    /\ cropStage = "vegetative"
    /\ existingSoilData = NoSoil
    /\ Start

NextAlerts == GenerateAlertsCall

SpecAlerts == InitAlerts /\ [][NextAlerts]_vars

(***************************************************************************)
(* SpecPest: the pest risk assessment and its route, with weather on both  *)
(* sides of every threshold and every crop stage a request may carry       *)
(***************************************************************************)
\* Red and NIR over the grid (they decide NDVI)
PestBands == [B02 : {1}, B03 : {1}, B04 : 0..MaxBand, B08 : 0..MaxBand, B11 : {1}]

PestTemperatures == {24, 25, 35, 36}
PestHumidities == {70, 71, 85, 86}
PestRainfalls == {20, 21}

\* req.body.cropStage: absent (""), the stages of the schema that matter, and
\* a value outside the schema's enum
PestStages == {"", "vegetative", "flowering", "fruiting", "harvest"}

InitPest ==
    /\ bandData \in PestBands
    /\ weatherData \in Weathers(PestTemperatures, PestHumidities, PestRainfalls)
    /\ cropType \in {"", "wheat"}
    /\ cropStage \in PestStages
    /\ existingSoilData = NoSoil
    /\ Start

NextPest == AssessPestRiskCall \/ PestRiskAssessRoute

SpecPest == InitPest /\ [][NextPest]_vars

(***************************************************************************)
(* SpecRecs: analyzeCropHealth for every crop type of the rule table, with *)
(* rainfall and temperature on both sides of the advice thresholds         *)
(***************************************************************************)
RecCropTypes == {"", "wheat", "rice", "cotton", "sugarcane", "potato", "tomato",
                 "onion", "soybean"}

InitRecs ==
    /\ bandData \in CoreBands
    /\ weatherData \in Weathers({35, 36}, {50}, {30, 31})
    /\ cropType \in RecCropTypes
    /\ cropStage = "vegetative"
    /\ existingSoilData = NoSoil
    /\ Start

NextRecs == AnalyzeCropHealthCall

SpecRecs == InitRecs /\ [][NextRecs]_vars

(***************************************************************************)
(* SpecPipeline: the full analysis pipeline on a stored farm               *)
(***************************************************************************)
\* farm.soilData of a farm with some fields filled in
StoredSoil ==
    [present |-> TRUE, ph |-> 65, nitrogen |-> Null, phosphorus |-> Null,
     potassium |-> Null, moisture |-> Null, organicMatter |-> Null]

InitPipeline ==
    /\ bandData \in CoreBands
    /\ weatherData \in Weathers({30, 41}, {50, 90}, {25})
    /\ cropType \in {"", "wheat"}
    /\ cropStage \in {"", "flowering"}
    /\ existingSoilData = StoredSoil
    /\ Start

NextPipeline == PipelineAnalyzeRoute

SpecPipeline == InitPipeline /\ [][NextPipeline]_vars

(***************************************************************************)
(* SpecConcurrent: callers of two farms invoke the analysis functions in   *)
(* any order and overwrite their own input objects between calls.  The     *)
(* functions of analysisEngine.js and sentinel2Bands.js are synchronous    *)
(* (no await, no callback), so a call runs to completion before the next   *)
(* one starts and calls interleave as whole steps.  The modules keep no    *)
(* state between calls: the only module-level binding of analysisEngine.js *)
(* is the imported computeAllIndices, and the pest table is a literal      *)
(* built inside getPredictedPests on every call.                           *)
(***************************************************************************)
\* what a call leaves behind: the value it returns, its caller's objects after
\* the call, and the fields of the value that are one of those objects itself
\* (a set of <<field of the value, name of the object>>)
Effect(value, args, shares) == [value |-> value, args |-> args, shares |-> shares]

\* destructures bands and returns an object literal of numbers
computeAllIndicesEffect(args) ==
    Effect(computeAllIndices(args.bands), args, {})

\* returns a literal of the fresh indices, a number, two new arrays and a string
analyzeCropHealthEffect(args, crop) ==
    Effect(analyzeCropHealth(args.bands, args.weather, crop), args, {})

\* analyzeSoil with Object.assign(existingSoilData, satelliteSoil) as merged
analyzeSoilEffectAssign(args) ==
    Let(analyzeSoil(args.bands, args.soil), LAMBDA out :
        IF args.soil.present
        THEN Effect(out,
                    [args EXCEPT !.soil =
                        [k \in DOMAIN out.soilMetrics \cup {"present"} |->
                            IF k = "present" THEN TRUE ELSE out.soilMetrics[k]]],
                    {<<"soilMetrics", "soil">>})
        ELSE Effect(out, args, {}))

\* merged = { ...(existingSoilData || {}), ...satelliteSoil } is a new object
\* of numbers; existingSoilData is only read
analyzeSoilEffect(args) ==
    Effect(analyzeSoil(args.bands, args.soil), args, {})

\* reads healthData.indices.ndvi and the weather; returns new literals
assessPestRiskEffect(args, crop, stage) ==
    Effect(assessPestRisk([present |-> TRUE, indices |-> args.health.indices],
                          args.weather, crop, stage),
           args, {})

\* pushes new alert literals; message: p.message copies a string
generateAlertsEffect(farmId, userId, args) ==
    Effect(generateAlerts(farmId, userId, AssessmentOf(args.health)), args, {})

AnalysisCalls == {"computeAllIndices", "analyzeCropHealth", "analyzeSoil",
                  "assessPestRisk", "generateAlerts"}

\* farm.cropType of the two farms
CropOf(farmId) == IF farmId = "farm1" THEN "wheat" ELSE "rice"

\* the arguments a call is given (Undefined: not an argument of that function)
Passed(name, args) ==
    [bands |-> IF name \in {"computeAllIndices", "analyzeCropHealth", "analyzeSoil"}
               THEN args.bands ELSE Undefined,
     weather |-> IF name \in {"analyzeCropHealth", "assessPestRisk"}
                 THEN args.weather ELSE Undefined,
     soil |-> IF name = "analyzeSoil" THEN args.soil ELSE Undefined,
     health |-> IF name \in {"assessPestRisk", "generateAlerts"}
                THEN args.health ELSE Undefined]

EffectOf(name, farmId, args) ==
    CASE name = "computeAllIndices" -> computeAllIndicesEffect(args)
      [] name = "analyzeCropHealth" -> analyzeCropHealthEffect(args, CropOf(farmId))
      [] name = "analyzeSoil" -> analyzeSoilEffect(args)
      [] name = "assessPestRisk" ->
            assessPestRiskEffect(args, CropOf(farmId), "flowering")
      [] name = "generateAlerts" -> generateAlertsEffect(farmId, "user1", args)

NoCall == [op |-> "none", args |-> <<>>, value |-> <<>>, shares |-> {}]

\* one analysis call made for a farm on the objects its caller holds
AnalysisCall(farmId, name) ==
    /\ \E effect \in {EffectOf(name, farmId, farms[farmId].args)} :
          /\ farms' = [farms EXCEPT ![farmId] =
                          [args |-> effect.args,
                           last |-> [op |-> name,
                                     args |-> Passed(name, farms[farmId].args),
                                     value |-> effect.value,
                                     shares |-> effect.shares]]]
          /\ op' = name
          /\ ret' = effect.value
    /\ UNCHANGED <<bandData, weatherData, cropType, cropStage, existingSoilData,
                   healthData, db>>

ComputeAllIndicesFor(farmId) == AnalysisCall(farmId, "computeAllIndices")
AnalyzeCropHealthFor(farmId) == AnalysisCall(farmId, "analyzeCropHealth")
AnalyzeSoilFor(farmId) == AnalysisCall(farmId, "analyzeSoil")
AssessPestRiskFor(farmId) == AnalysisCall(farmId, "assessPestRisk")
GenerateAlertsFor(farmId) == AnalysisCall(farmId, "generateAlerts")

\* the values each object of a caller can hold: farm1 has a manual soil record
\* and a weather service that may fail, farm2 has no soil record
CallerBands == {[B02 |-> 1, B03 |-> 1, B04 |-> 1, B08 |-> MaxBand, B11 |-> 2],
                [B02 |-> 1, B03 |-> 1, B04 |-> 3, B08 |-> 1, B11 |-> MaxBand]}
CallerWeathers == {NoWeather, [present |-> TRUE, temperature |-> 30,
                               humidity |-> 90, rainfall |-> 25]}
CallerSoils == {NoSoil, [present |-> TRUE, ph |-> 50, nitrogen |-> 100,
                         phosphorus |-> 10, potassium |-> 100,
                         moisture |-> Undefined, organicMatter |-> 1]}
CallerHealths == {analyzeCropHealth(b, NoWeather, "wheat") : b \in CallerBands}

CallerValues(farmId, object) ==
    CASE object = "bands" -> CallerBands
      [] object = "weather" ->
            IF farmId = "farm1" THEN CallerWeathers ELSE CallerWeathers \ {NoWeather}
      [] object = "soil" -> IF farmId = "farm1" THEN CallerSoils ELSE {NoSoil}
      [] object = "health" -> CallerHealths

\* the caller overwrites one of its objects in place after a call; a field of
\* the returned value that is this very object changes with it
MutateInput(farmId) ==
    \E object \in {"bands", "weather", "soil", "health"} :
    \E v \in CallerValues(farmId, object) \ {farms[farmId].args[object]} :
        /\ farms' = [farms EXCEPT
                ![farmId].args[object] = v,
                ![farmId].last.value =
                    IF \E s \in farms[farmId].last.shares : s[2] = object
                    THEN [k \in DOMAIN @ |->
                            IF <<k, object>> \in farms[farmId].last.shares
                            THEN v ELSE @[k]]
                    ELSE @]
        /\ op' = "mutateInput"
        /\ UNCHANGED <<bandData, weatherData, cropType, cropStage,
                       existingSoilData, healthData, db, ret>>

InitConcurrent ==
    /\ bandData = [B02 |-> 1, B03 |-> 1, B04 |-> 1, B08 |-> 1, B11 |-> 1]
    /\ weatherData = NoWeather
    /\ cropType = ""
    /\ cropStage = "flowering"
    /\ existingSoilData = NoSoil
    /\ healthData = NoHealth
    /\ db = EmptyDb
    /\ op = "none"
    /\ ret = <<>>
    /\ farms \in [FarmIds -> [args : [bands : CallerBands, weather : CallerWeathers,
                                      soil : CallerSoils, health : CallerHealths],
                              last : {NoCall}]]
    /\ \A farmId \in FarmIds :
          \A object \in {"bands", "weather", "soil", "health"} :
              farms[farmId].args[object] \in CallerValues(farmId, object)

NextConcurrent ==
    \E farmId \in FarmIds :
        \/ ComputeAllIndicesFor(farmId)
        \/ AnalyzeCropHealthFor(farmId)
        \/ AnalyzeSoilFor(farmId)
        \/ AssessPestRiskFor(farmId)
        \/ GenerateAlertsFor(farmId)
        \/ MutateInput(farmId)

SpecConcurrent == InitConcurrent /\ [][NextConcurrent]_vars

(***************************************************************************)
(* Claims                                                                  *)
(***************************************************************************)
Called(name) == op = name

\* the score of the health algorithm as the specification words it
C1_Expected(indices, weather) ==
    LET ndviBonus == IF indices.ndvi > 6000 THEN 35
                     ELSE IF indices.ndvi > 4000 THEN 25
                     ELSE IF indices.ndvi > 2000 THEN 15 ELSE 5
        ndmiBonus == IF indices.ndmi > 2000 THEN 15
                     ELSE IF indices.ndmi > 0 THEN 10 ELSE 3
        tempPenalty == IF weather.present
                          /\ (weather.temperature > 40 \/ weather.temperature < 5)
                       THEN 10 ELSE 0
        humPenalty == IF weather.present
                         /\ (weather.humidity > 90 \/ weather.humidity < 20)
                      THEN 5 ELSE 0
        bsiPenalty == IF indices.bsi > 2000 THEN 10 ELSE 0
        sum == 50 + ndviBonus + ndmiBonus - tempPenalty - humPenalty - bsiPenalty
    IN  IF sum < 0 THEN 0 ELSE IF sum > 100 THEN 100 ELSE sum

\* C1: the healthScore of analyzeCropHealth is 50 + NDVI tier bonus + NDMI tier
\* bonus - 10 for an extreme temperature - 5 for an extreme humidity - 10 for
\* BSI > 0.2, clamped to [0,100]; with a temperature above 40 it is at most the
\* score under a non-extreme temperature minus 10
C1_HealthScoreFormula ==
    Called("analyzeCropHealth") =>
        /\ ret.healthScore = C1_Expected(ret.indices, weatherData)
        /\ (weatherData.present /\ weatherData.temperature > 40) =>
              ret.healthScore <=
                  C1_Expected(ret.indices, [weatherData EXCEPT !.temperature = 30]) - 10

C1_Witness ==
    /\ Called("analyzeCropHealth")
    /\ weatherData.present /\ weatherData.temperature > 40
    /\ ret.indices.ndvi < 2000 /\ ret.indices.ndmi < -1000 /\ ret.indices.bsi > 3000
    /\ ret.healthScore = 38

C3_Status(score) ==
    IF score >= 75 THEN "healthy"
    ELSE IF score >= 50 THEN "moderate"
    ELSE IF score >= 25 THEN "poor"
    ELSE "critical"

\* C3: the status of analyzeCropHealth is decided by the returned healthScore
\* alone (healthy >= 75, moderate >= 50, poor >= 25, else critical), and the
\* dashboard's healthStatus of a stored healthScore follows the same thresholds
C3_StatusThresholds ==
    /\ Called("analyzeCropHealth") => ret.status = C3_Status(ret.healthScore)
    /\ (Called("cropHealthAnalyzeRoute") /\ ret.code = 200) =>
          /\ db.latestHealth.healthScore = ret.healthScore
          /\ ret.status = C3_Status(db.latestHealth.healthScore)
    /\ (Called("dashboard") /\ db.latestHealth.present) =>
          ret.healthStatus = C3_Status(db.latestHealth.healthScore)

C3_Witness ==
    /\ Called("dashboard")
    /\ db.latestHealth.present
    /\ db.latestHealth.healthScore = 75
    /\ ret.healthStatus = "healthy"

C4_Expected(indices, weather) ==
    (IF indices.ndvi < 2000 THEN <<(<<"low_ndvi", "high">>)>>
     ELSE IF indices.ndvi < 4000 THEN <<(<<"low_ndvi", "medium">>)>> ELSE <<>>)
    \o (IF indices.ndmi < -1000 THEN <<(<<"water_stress", "high">>)>>
        ELSE IF indices.ndmi < 1000 THEN <<(<<"water_stress", "medium">>)>> ELSE <<>>)
    \o (IF indices.bsi > 3000 THEN <<(<<"bare_soil", "high">>)>> ELSE <<>>)
    \o (IF weather.present /\ weather.humidity > 85 /\ weather.temperature > 20
        THEN <<(<<"disease_risk", "medium">>)>> ELSE <<>>)

\* C4: the problems of analyzeCropHealth are, in this order, the low_ndvi,
\* water_stress, bare_soil and disease_risk problems whose rule qualifies, each
\* rule deciding alone, with at most one problem per type
C4_ProblemList ==
    Called("analyzeCropHealth") =>
        /\ [i \in DOMAIN ret.problems |->
               <<ret.problems[i].type, ret.problems[i].severity>>]
           = C4_Expected(ret.indices, weatherData)
        /\ \A i, j \in DOMAIN ret.problems :
               ret.problems[i].type = ret.problems[j].type => i = j

C4_Witness ==
    /\ Called("analyzeCropHealth")
    /\ Len(ret.problems) = 4
    /\ ret.healthScore >= 50

\* C2: every score the core returns lies in [0,100]: the crop health score,
\* the soil health score, the pest risk score and its confidence
C2_ScoresInRange ==
    /\ Called("analyzeCropHealth") => ret.healthScore \in 0..100
    /\ Called("analyzeSoil") => ret.healthScore \in 0..100
    /\ Called("assessPestRisk") =>
          ret.riskScore \in 0..100 /\ ret.confidence \in 0..100

C2_Witness ==
    /\ Called("analyzeSoil")
    /\ existingSoilData.present
    /\ ret.healthScore = 100

C10_NeutralWeather == [present |-> TRUE, temperature |-> 20, humidity |-> 50,
                       rainfall |-> 0]
C10_WeatherRecs == {"Heavy rainfall expected. Ensure proper field drainage.",
                    "Heat stress risk. Schedule irrigation during cooler hours."}
C10_GeneralRecs ==
    {"Increase irrigation frequency. Consider drip irrigation for water efficiency.",
     "Apply mulch to retain soil moisture.",
     "Conduct field inspection for disease or pest damage.",
     "Consider foliar application of balanced NPK fertilizer.",
     "Crop is healthy. Maintain current management practices."} \cup C10_WeatherRecs
C10_Range(seq) == {seq[i] : i \in DOMAIN seq}

\* C10: with null weather or a missing or unknown crop type analyzeCropHealth
\* and assessPestRisk still return a complete assessment; with null weather
\* the health score is the score under neutral weather and there is no
\* disease_risk problem and no rainfall or heat recommendation; with a missing
\* crop type no crop-specific recommendation is appended
C10_MissingWeatherOrCrop ==
    /\ (Called("analyzeCropHealth") /\ ~weatherData.present) =>
          /\ ret.healthScore =
                calculateHealthScore(ret.indices, C10_NeutralWeather, cropType)
          /\ \A i \in DOMAIN ret.problems : ret.problems[i].type # "disease_risk"
          /\ C10_Range(ret.recommendations) \cap C10_WeatherRecs = {}
          /\ ret.status \in {"healthy", "moderate", "poor", "critical"}
    /\ (Called("analyzeCropHealth") /\ cropType \in {"", "soybean"}) =>
          /\ C10_Range(ret.recommendations) \subseteq C10_GeneralRecs
          /\ ret.status \in {"healthy", "moderate", "poor", "critical"}
    /\ (Called("assessPestRisk") /\ (~weatherData.present \/ cropType \in {"", "soybean"})) =>
          /\ ret.riskLevel \in {"low", "medium", "high"}
          /\ ret.riskScore \in 0..100
          /\ Len(ret.pestTypes) >= 1
          /\ Len(ret.preventionTips) >= 3
          /\ Len(ret.treatments) >= 2
    /\ (Called("assessPestRisk") /\ ~weatherData.present) =>
          ret.riskScore = PestRiskAccumulated(healthData, C10_NeutralWeather, cropStage)

C10_Witness ==
    /\ Called("analyzeCropHealth")
    /\ ~weatherData.present
    /\ cropType = ""
    /\ Len(ret.recommendations) = 4

NonNegative(bands) == \A k \in DOMAIN bands : bands[k] >= 0

\* C7: for non-negative reflectances EVI lies in [-1,10], SAVI in [-1,5] and
\* MSAVI in [-1,5]
C7_IndexRanges ==
    (Called("computeAllIndices") /\ NonNegative(bandData)) =>
        /\ ret.evi >= -10000 /\ ret.evi <= 100000
        /\ ret.savi >= -10000 /\ ret.savi <= 50000
        /\ ret.msavi >= -10000 /\ ret.msavi <= 50000

\* C8: for non-negative reflectances NDVI, NDWI, NDMI and BSI lie in [-1,1]
C8_NormalizedDifferenceRange ==
    (Called("computeAllIndices") /\ NonNegative(bandData)) =>
        /\ ret.ndvi >= -10000 /\ ret.ndvi <= 10000
        /\ ret.ndwi >= -10000 /\ ret.ndwi <= 10000
        /\ ret.ndmi >= -10000 /\ ret.ndmi <= 10000
        /\ ret.bsi >= -10000 /\ ret.bsi <= 10000

C8_Witness ==
    /\ Called("computeAllIndices")
    /\ NonNegative(bandData)
    /\ ret.ndvi = 10000
    /\ ret.ndwi = -10000
    /\ ret.bsi = -10000

Abs(x) == IF x < 0 THEN 0 - x ELSE x

\* r is 10^4 * n / d rounded to an integer (a tie may go either way)
C9_Rounds(r, n, d) == d # 0 /\ Abs(20000 * n - 2 * r * d) <= Abs(d)

\* floor(t*t / 10^8) and whether t*t is a multiple of 10^8, for t >= 0
C9_SqHigh(t) ==
    (t \div 10000) * (t \div 10000)
    + (2 * (t \div 10000) * (t % 10000) + ((t % 10000) * (t % 10000)) \div 10000)
      \div 10000
C9_SqLowZero(t) ==
    /\ ((t % 10000) * (t % 10000)) % 10000 = 0
    /\ (2 * (t \div 10000) * (t % 10000) + ((t % 10000) * (t % 10000)) \div 10000)
       % 10000 = 0

\* r is 10^4 * (p - sqrt(q)) / d rounded to an integer, d > 0, q >= 0:
\* a - d <= 2*10^4*sqrt(q) <= a + d for a = 2*10^4*p - 2*r*d
C9_RoundsSurd(r, p, q, d) ==
    LET a == 20000 * p - 2 * r * d
    IN  /\ a + d >= 0
        /\ C9_SqHigh(a + d) >= 4 * q
        /\ \/ a - d <= 0
           \/ C9_SqHigh(a - d) < 4 * q
           \/ (C9_SqHigh(a - d) = 4 * q /\ C9_SqLowZero(a - d))

\* C9: computeAllIndices returns each of the seven indices as its formula
\* rounded to 4 decimals, and 0 (never NaN or Infinity) for NDVI, EVI, NDWI,
\* NDMI and BSI when the denominator is 0 and for MSAVI when the expression
\* under the square root is negative; Red : NIR = 1000 : 3000 gives NDVI 0.5
\* and Red = NIR = 0 gives NDVI 0
C9_RoundedFormulas ==
    Called("computeAllIndices") =>
        LET B02 == bandData.B02
            B03 == bandData.B03
            B04 == bandData.B04
            B08 == bandData.B08
            B11 == bandData.B11
            eviDen == 2 * B08 + 12 * B04 - 15 * B02 + 2 * BandDen
            saviDen == 2 * B08 + 2 * B04 + BandDen
            bsiDen == B11 + B04 + B08 + B02
            radicand == (2 * B08 + BandDen) * (2 * B08 + BandDen)
                        - 8 * BandDen * (B08 - B04)
        IN  /\ \A k \in DOMAIN ret : IsNumber(ret[k])
            /\ IF B08 + B04 = 0 THEN ret.ndvi = 0
               ELSE C9_Rounds(ret.ndvi, B08 - B04, B08 + B04)
            /\ IF eviDen = 0 THEN ret.evi = 0
               ELSE C9_Rounds(ret.evi, 5 * (B08 - B04), eviDen)
            /\ saviDen # 0 => C9_Rounds(ret.savi, 3 * (B08 - B04), saviDen)
            /\ IF B03 + B08 = 0 THEN ret.ndwi = 0
               ELSE C9_Rounds(ret.ndwi, B03 - B08, B03 + B08)
            /\ IF B08 + B11 = 0 THEN ret.ndmi = 0
               ELSE C9_Rounds(ret.ndmi, B08 - B11, B08 + B11)
            /\ IF bsiDen = 0 THEN ret.bsi = 0
               ELSE C9_Rounds(ret.bsi, (B11 + B04) - (B08 + B02), bsiDen)
            /\ IF radicand < 0 THEN ret.msavi = 0
               ELSE C9_RoundsSurd(ret.msavi, 2 * B08 + BandDen, radicand, 2 * BandDen)
            /\ (B04 = 1 /\ B08 = 3) => ret.ndvi = 5000
            /\ (B04 = 0 /\ B08 = 0) => ret.ndvi = 0
            /\ round(computeNDVI(1000, 3000)) = 5000

C9_Witness ==
    /\ Called("computeAllIndices")
    /\ bandData.B08 # 0 /\ bandData.B08 + bandData.B04 = 0
    /\ MSAVIInner(bandData.B04, bandData.B08) < 0
    /\ bandData.B08 + bandData.B11 # 0
    /\ ret.ndvi = 0 /\ ret.msavi = 0 /\ ret.ndmi # 0

\* the sample with its absent bands set to 0
C5_ZeroFilled(bands) ==
    [k \in DOMAIN bands |-> IF bands[k] = Undefined THEN 0 ELSE bands[k]]

\* C5: absent band keys are treated as 0: computeAllIndices returns the same
\* finite indices as on the zero-filled sample, and analyzeSoil on an empty
\* sample gives proxies vegetationCover and estimatedMoisture inside [0,100]
\* and the healthScore of the all-zero sample
C5_MissingBandsAsZero ==
    /\ Called("computeAllIndices") =>
        /\ ret = computeAllIndices(C5_ZeroFilled(bandData))
        /\ \A k \in DOMAIN ret : IsNumber(ret[k])
    /\ (Called("analyzeSoil") /\ \A k \in DOMAIN bandData : bandData[k] = Undefined) =>
        /\ ret.soilMetrics.vegetationCover \in 0..100
        /\ ret.soilMetrics.estimatedMoisture \in 0..100
        /\ ret.healthScore
           = analyzeSoil(C5_ZeroFilled(bandData), existingSoilData).healthScore

C6_Absent(v) == v = Undefined \/ v = Null

C6_Recommends(text) ==
    \E i \in DOMAIN ret.recommendations : ret.recommendations[i] = text

\* C6: an absent field (undefined or null) of the soil record brings no
\* recommendation and adds 0 to the soil health score; a supplied field brings
\* its recommendation iff its rule holds (pH<5.5, pH>8.0, nitrogen<150,
\* phosphorus<20, potassium<150, organicMatter<2), each independently, next to
\* the satellite rules estimatedMoisture<30 and BSI>0.3
C6_AbsentFieldsUnknown ==
    (Called("analyzeSoil") /\ existingSoilData.present) =>
        LET soil == existingSoilData
            moist == ret.soilMetrics.estimatedMoisture
            bonus(v, ok) == IF ~C6_Absent(v) /\ ok THEN 1 ELSE 0
        IN  /\ C6_Recommends("Soil is acidic. Consider liming.")
               <=> (~C6_Absent(soil.ph) /\ soil.ph < 55)
            /\ C6_Recommends("Soil is alkaline. Consider adding sulfur.")
               <=> (~C6_Absent(soil.ph) /\ soil.ph > 80)
            /\ C6_Recommends("Low nitrogen. Apply urea or ammonium sulfate.")
               <=> (~C6_Absent(soil.nitrogen) /\ soil.nitrogen < 150)
            /\ C6_Recommends("Low phosphorus. Apply superphosphate.")
               <=> (~C6_Absent(soil.phosphorus) /\ soil.phosphorus < 20)
            /\ C6_Recommends("Low potassium. Apply muriate of potash.")
               <=> (~C6_Absent(soil.potassium) /\ soil.potassium < 150)
            /\ C6_Recommends("Low organic matter. Add compost or green manure.")
               <=> (~C6_Absent(soil.organicMatter) /\ soil.organicMatter < 2)
            /\ C6_Recommends("Soil appears dry. Increase irrigation.") <=> moist < 30
            /\ C6_Recommends("High bare soil exposure. Consider cover cropping.")
               <=> ret.indices.bsi > 3000
            /\ ret.healthScore
               = 50 + (IF moist >= 30 /\ moist <= 70 THEN 15 ELSE 0 - 5)
                 + (IF ret.soilMetrics.vegetationCover > 60 THEN 10 ELSE 0)
                 + 10 * bonus(soil.ph, soil.ph >= 60 /\ soil.ph <= 75)
                 + 10 * bonus(soil.organicMatter, soil.organicMatter > 3)
                 + 5 * bonus(soil.nitrogen, soil.nitrogen >= 200)

\* the same statement for records whose absent fields are undefined only
C6_UndefinedFieldsUnknown ==
    (\A f \in {"ph", "nitrogen", "phosphorus", "potassium", "organicMatter"} :
        existingSoilData[f] # Null)
    => C6_AbsentFieldsUnknown

\* the index set of the example: NDVI 0.7, NDMI 0.3, BSI 0.0
C11_Example == [ndvi |-> 7000, evi |-> 0, savi |-> 0, ndwi |-> 0,
                ndmi |-> 3000, bsi |-> 0, msavi |-> 0]

\* weather at the inclusive limits of the normal range, and none
C11_LimitWeather ==
    {NoWeather} \cup [present : {TRUE}, temperature : {5, 40},
                      humidity : {20, 90}, rainfall : {0}]

\* C11: with NDVI>0.6, NDMI>0.2, BSI<=0.2 and weather absent or within
\* temperature [5,40] and humidity [20,90], analyzeCropHealth returns
\* healthScore 100 and status 'healthy' (also for the example NDVI 0.7,
\* NDMI 0.3, BSI 0.0 at the limits of the weather range)
C11_ThrivingCrop ==
    Called("analyzeCropHealth") =>
        /\ ( /\ ret.indices.ndvi > 6000
             /\ ret.indices.ndmi > 2000
             /\ ret.indices.bsi <= 2000
             /\ \/ ~weatherData.present
                \/ /\ weatherData.temperature >= 5 /\ weatherData.temperature <= 40
                   /\ weatherData.humidity >= 20 /\ weatherData.humidity <= 90 )
           => (ret.healthScore = 100 /\ ret.status = "healthy")
        /\ \A w \in C11_LimitWeather :
              /\ calculateHealthScore(C11_Example, w, cropType) = 100
              /\ StatusOf(calculateHealthScore(C11_Example, w, cropType)) = "healthy"

C11_Witness ==
    /\ Called("analyzeCropHealth")
    /\ ret.indices.ndvi > 6000 /\ ret.indices.ndmi > 2000 /\ ret.indices.bsi <= 2000
    /\ weatherData.present
    /\ weatherData.temperature = 36 /\ weatherData.humidity = 86
    /\ ret.healthScore = 100 /\ ret.status = "healthy"

C12_High ==
    IF ret.analysisResults.hasProblems
    THEN SelectSeq(ret.analysisResults.problems, LAMBDA p : p.severity = "high")
    ELSE <<>>

C12_ScoreAlertCount == IF ret.analysisResults.healthScore < 50 THEN 1 ELSE 0

\* C12: after the optional score alert generateAlerts returns exactly one
\* urgent alert per high-severity problem, in problem order, of type 'soil'
\* for water_stress and 'health' otherwise, expiring in 3 days; the list is
\* empty iff healthScore >= 50 and no problem is high; every urgent alert
\* expires in 3 days and every warning alert in 7
C12_ProblemAlerts ==
    Called("generateAlerts") =>
        /\ Len(ret.alerts) = C12_ScoreAlertCount + Len(C12_High)
        /\ \A i \in DOMAIN C12_High :
              LET alert == ret.alerts[C12_ScoreAlertCount + i]
              IN  /\ alert.priority = "urgent"
                  /\ alert.type = IF C12_High[i].type = "water_stress"
                                  THEN "soil" ELSE "health"
                  /\ alert.message = <<C12_High[i].message>>
                  /\ alert.expiresAt = 3
        /\ ret.alerts = <<>>
           <=> (ret.analysisResults.healthScore >= 50 /\ C12_High = <<>>)
        /\ \A i \in DOMAIN ret.alerts :
              /\ ret.alerts[i].priority = "urgent" => ret.alerts[i].expiresAt = 3
              /\ ret.alerts[i].priority = "warning" => ret.alerts[i].expiresAt = 7

C12_Witness ==
    /\ Called("generateAlerts")
    /\ ret.analysisResults.healthScore = 49
    /\ Len(ret.analysisResults.problems) = 4
    /\ Len(ret.alerts) = 4
    /\ ret.alerts[1].priority = "warning"
    /\ ret.alerts[2].type = "health"
    /\ ret.alerts[3].type = "soil"
    /\ ret.alerts[4].title = <<"Alert: ", "bare soil">>

\* C13: generateAlerts emits exactly one score alert when healthScore < 50 and
\* none otherwise: below 25 an urgent 'Critical Crop Health' alert whose
\* message contains the score, expiring in 3 days; from 25 up to 50 a warning
\* 'Low Crop Health' alert expiring in 7 days; never both, and the score alert
\* is the first element of the list
C13_ScoreAlert ==
    Called("generateAlerts") =>
        LET score == ret.analysisResults.healthScore
            isScoreAlert(a) == a.title \in {<<"Critical Crop Health">>,
                                            <<"Low Crop Health">>}
            count == Cardinality({i \in DOMAIN ret.alerts : isScoreAlert(ret.alerts[i])})
        IN  /\ count = IF score < 50 THEN 1 ELSE 0
            /\ score < 25 =>
                  /\ ret.alerts[1].title = <<"Critical Crop Health">>
                  /\ ret.alerts[1].priority = "urgent"
                  /\ ret.alerts[1].expiresAt = 3
                  /\ \E k \in DOMAIN ret.alerts[1].message :
                        ret.alerts[1].message[k] = ToString(score)
            /\ (score >= 25 /\ score < 50) =>
                  /\ ret.alerts[1].title = <<"Low Crop Health">>
                  /\ ret.alerts[1].priority = "warning"
                  /\ ret.alerts[1].expiresAt = 7
            /\ (score = 10 /\ Len(ret.alerts) > 0) =>
                  ret.alerts[1].message[2] = "10"

C13_Witness ==
    /\ Called("generateAlerts")
    /\ ret.analysisResults.healthScore = 10
    /\ Len(ret.alerts) = 3
    /\ ret.alerts[1].priority = "urgent"
    /\ ret.alerts[1].title = <<"Critical Crop Health">>
    /\ ret.alerts[1].message[2] = "10"

\* the accumulated pest risk score as the specification words it
C14_Expected ==
    20
    + (IF weatherData.present
       THEN (IF weatherData.temperature >= 25 /\ weatherData.temperature <= 35
             THEN 15 ELSE 0)
            + (IF weatherData.humidity > 70 THEN 15 ELSE 0)
            + (IF weatherData.humidity > 85 THEN 10 ELSE 0)
            + (IF weatherData.rainfall > 20 THEN 5 ELSE 0)
       ELSE 0)
    + (IF healthData.present
       THEN (IF healthData.indices.ndvi < 3000 THEN 15
             ELSE IF healthData.indices.ndvi < 5000 THEN 8 ELSE 0)
       ELSE 0)
    + (IF cropStage \in {"flowering", "fruiting"} THEN 10 ELSE 0)

\* C14: the accumulated pest risk score is 20 + 15 (temperature in [25,35])
\* + 15 (humidity>70) + 10 (humidity>85) + 5 (rainfall>20) + 15 (NDVI<0.3) or
\* 8 (NDVI<0.5) + 10 (stage flowering or fruiting), without the weather terms
\* when weather is absent and without the NDVI term when no indices are
\* given; the reported riskScore is that sum, at most 100
C14_PestRiskScore ==
    Called("assessPestRisk") =>
        ret.riskScore = IF C14_Expected > 100 THEN 100 ELSE C14_Expected

C14_Witness ==
    /\ Called("assessPestRisk")
    /\ weatherData.present /\ healthData.present
    /\ weatherData.temperature = 35 /\ weatherData.humidity = 86
    /\ weatherData.rainfall = 21
    /\ healthData.indices.ndvi < 3000
    /\ cropStage = "fruiting"
    /\ ret.riskScore = 90

C15_Level(score) ==
    IF score >= 70 THEN "high" ELSE IF score >= 40 THEN "medium" ELSE "low"

\* the example: temperature 30, humidity 90, rainfall 25
C15_ExampleWeather ==
    [present |-> TRUE, temperature |-> 30, humidity |-> 90, rainfall |-> 25]

\* C15: riskLevel is 'high' when the accumulated score is >= 70, 'medium' in
\* [40,70) and 'low' below 40, and agrees with the reported riskScore under the
\* same thresholds; temperature 30, humidity 90, rainfall 25 at stage
\* 'flowering' gives 'high' for every NDVI
C15_RiskLevel ==
    Called("assessPestRisk") =>
        /\ ret.riskLevel = C15_Level(PestRiskAccumulated(healthData, weatherData, cropStage))
        /\ ret.riskLevel = C15_Level(ret.riskScore)
        /\ assessPestRisk(healthData, C15_ExampleWeather, cropType, "flowering").riskLevel
           = "high"

C15_Witness ==
    /\ Called("assessPestRisk")
    /\ healthData.present
    /\ healthData.indices.ndvi >= 5000
    /\ ret.riskScore = 70
    /\ ret.riskLevel = "high"

C16_Rank(level) == IF level = "high" THEN 2 ELSE IF level = "medium" THEN 1 ELSE 0

\* C16: of two calls of assessPestRisk that differ only in humidity, the one
\* with the higher humidity has a riskScore and a riskLevel at least as high
C16_HumidityMonotone ==
    (Called("assessPestRisk") /\ weatherData.present) =>
        \A h2 \in PestHumidities \cup {0, 100} :
            LET other == assessPestRisk(healthData, [weatherData EXCEPT !.humidity = h2],
                                        cropType, cropStage)
            IN  /\ weatherData.humidity <= h2 =>
                      /\ ret.riskScore <= other.riskScore
                      /\ C16_Rank(ret.riskLevel) <= C16_Rank(other.riskLevel)
                /\ h2 <= weatherData.humidity =>
                      /\ other.riskScore <= ret.riskScore
                      /\ C16_Rank(other.riskLevel) <= C16_Rank(ret.riskLevel)

\* a call at humidity 71 whose level rises from medium to high at humidity 86
C16_Witness ==
    /\ Called("assessPestRisk")
    /\ weatherData.present
    /\ weatherData.humidity = 71
    /\ ret.riskLevel = "medium"
    /\ assessPestRisk(healthData, [weatherData EXCEPT !.humidity = 86],
                      cropType, cropStage).riskLevel = "high"

\* C20 as stated: confidence = clamp(60 + riskScore / 5, 0, 100), the
\* quotient taken exactly
C20_ConfidenceExact ==
    Called("assessPestRisk") =>
        5 * ret.confidence = IF 300 + ret.riskScore > 500 THEN 500
                             ELSE 300 + ret.riskScore

\* C20 (amended): confidence = 60 + riskScore / 5 with the quotient rounded
\* to the nearest integer, at most 100
C20_ConfidenceRounded ==
    Called("assessPestRisk") =>
        \E k \in 0..100 :
            /\ Abs(5 * k - ret.riskScore) <= 2
            /\ ret.confidence = IF 60 + k > 100 THEN 100 ELSE 60 + k

C20_Witness ==
    /\ Called("assessPestRisk")
    /\ ret.riskScore = 28
    /\ ret.confidence = 66

\* the entries of pestTypes with the highest probability
C17_Top(pestTypes) ==
    {i \in DOMAIN pestTypes :
        \A j \in DOMAIN pestTypes : pestTypes[j].probability <= pestTypes[i].probability}

\* C17: a run of the pest-risk assess route that produces an assessment with
\* riskLevel 'high' stores exactly one more alert: urgent, of type 'pest',
\* its message naming the pest of highest probability in assessment.pestTypes
\* with that probability, its expiresAt the assessment's validUntil; validUntil
\* is 7 days after the assessment at every risk level; a run with riskLevel
\* medium or low stores no alert
C17_PestRouteAlert ==
    [][(op' = "pestRiskAssessRoute" /\ ret'.code = 200) =>
          LET assessment == ret'.assessment
              stored == Len(db.alerts)
          IN  /\ assessment.validUntil = 7
              /\ \A crop \in {"", "wheat", "rice", "cotton", "corn", "tomato"} :
                    C17_Top(getPredictedPests(crop, weatherData, assessment.riskLevel))
                    = {1}
              /\ IF assessment.riskLevel = "high"
                 THEN /\ Len(db'.alerts) = stored + 1
                      /\ SubSeq(db'.alerts, 1, stored) = db.alerts
                      /\ LET alert == db'.alerts[stored + 1]
                         IN  /\ alert.type = "pest"
                             /\ alert.priority = "urgent"
                             /\ alert.expiresAt = assessment.validUntil
                             /\ \E i \in C17_Top(assessment.pestTypes) :
                                   /\ alert.message[6] = assessment.pestTypes[i].name
                                   /\ alert.message[8]
                                      = ToString(assessment.pestTypes[i].probability)
                 ELSE db'.alerts = db.alerts]_vars

C17_Witness ==
    /\ Called("pestRiskAssessRoute")
    /\ ret.code = 200
    /\ ret.assessment.riskLevel = "high"
    /\ cropType = "wheat"
    /\ Len(db.alerts) = 2
    /\ db.alerts[2].message[6] = "Aphids"
    /\ db.alerts[2].message[8] = "59"
    /\ db.alerts[2].expiresAt = 7

C18_ManualFields ==
    {"ph", "nitrogen", "phosphorus", "potassium", "moisture", "organicMatter"}

\* c is 100 * num / den rounded to an integer and clamped to [0,100]
C18_Proxy(value, num, den) ==
    \E c \in -100..300 :
        /\ Abs(2 * den * c - 200 * num) <= den
        /\ value = IF c < 0 THEN 0 ELSE IF c > 100 THEN 100 ELSE c

\* C18: the soilMetrics of analyzeSoil are the manual record plus exactly
\* four satellite fields: moistureIndex = NDMI, baresoilIndex = BSI,
\* vegetationCover = clamp(round((NDVI+1)/2*100),0,100) and estimatedMoisture
\* = clamp(round((NDMI+0.5)*80),0,100); every manual field keeps its value
\* and the record passed in is not modified
C18_SoilMetricsFrame ==
    [][op' = "analyzeSoil" =>
          LET merged == ret'.soilMetrics
              ndvi == ret'.indices.ndvi
              ndmi == ret'.indices.ndmi
          IN  /\ DOMAIN merged = C18_ManualFields
                    \cup {"moistureIndex", "baresoilIndex", "vegetationCover",
                          "estimatedMoisture"}
              /\ \A f \in C18_ManualFields : merged[f] = existingSoilData[f]
              /\ merged.moistureIndex = ndmi
              /\ merged.baresoilIndex = ret'.indices.bsi
              /\ C18_Proxy(merged.vegetationCover, ndvi + 10000, 20000)
              /\ C18_Proxy(merged.estimatedMoisture, 8 * (ndmi + 5000), 100000)
              /\ existingSoilData' = existingSoilData]_vars

C18_Witness ==
    /\ Called("analyzeSoil")
    /\ existingSoilData.present
    /\ existingSoilData.moisture = 35 /\ existingSoilData.ph = 65
    /\ ret.soilMetrics.moisture = 35 /\ ret.soilMetrics.ph = 65
    /\ ret.soilMetrics.estimatedMoisture = 100
    /\ ret.soilMetrics.vegetationCover = 80

\* C19: the soil health score is 50, +15 if estimatedMoisture is in [30,70]
\* and -5 otherwise, +10 if vegetationCover>60, +10 if pH is in [6.0,7.5],
\* +10 if organicMatter>3, +5 if nitrogen>=200, clamped to [0,100]
C19_SoilHealthScore ==
    Called("analyzeSoil") =>
        LET merged == ret.soilMetrics
            given(f) == IsNumber(merged[f])
            sum == 50
                   + (IF merged.estimatedMoisture >= 30 /\ merged.estimatedMoisture <= 70
                      THEN 15 ELSE 0 - 5)
                   + (IF merged.vegetationCover > 60 THEN 10 ELSE 0)
                   + (IF given("ph") /\ merged.ph >= 60 /\ merged.ph <= 75 THEN 10 ELSE 0)
                   + (IF given("organicMatter") /\ merged.organicMatter > 3 THEN 10 ELSE 0)
                   + (IF given("nitrogen") /\ merged.nitrogen >= 200 THEN 5 ELSE 0)
        IN  ret.healthScore = IF sum < 0 THEN 0 ELSE IF sum > 100 THEN 100 ELSE sum

C19_Witness ==
    /\ Called("analyzeSoil")
    /\ ret.soilMetrics.estimatedMoisture > 70
    /\ ret.soilMetrics.vegetationCover > 60
    /\ ret.soilMetrics.ph = 65
    /\ ret.soilMetrics.organicMatter = 4
    /\ ret.soilMetrics.nitrogen = 200
    /\ ret.healthScore = 80

\* the pest table as the specification gives it: names and base probabilities
C22_Table(crop) ==
    IF crop = "wheat" THEN <<<<"Aphids", 45>>, <<"Rust", 35>>>>
    ELSE IF crop = "rice" THEN <<<<"Stem Borer", 50>>, <<"Brown Plant Hopper", 40>>>>
    ELSE IF crop = "cotton" THEN <<<<"Bollworm", 55>>, <<"Whitefly", 40>>>>
    ELSE IF crop = "corn" THEN <<<<"Fall Armyworm", 50>>, <<"Corn Borer", 35>>>>
    ELSE IF crop = "tomato" THEN <<<<"Fruit Borer", 50>>, <<"Leaf Miner", 35>>>>
    ELSE <<<<"General Insects", 30>>>>

\* the multiplier in tenths
C22_Multiplier(level) ==
    IF level = "high" THEN 13 ELSE IF level = "medium" THEN 10 ELSE 6

\* pestTypes is the table entry of the crop, in order, each probability the
\* base times the multiplier, rounded (a half goes up) and capped at 95
C22_Matches(pestTypes, crop, level) ==
    /\ Len(pestTypes) = Len(C22_Table(crop))
    /\ \A i \in DOMAIN pestTypes :
          /\ pestTypes[i].name = C22_Table(crop)[i][1]
          /\ \E q \in 0..200 :
                /\ 10 * q <= C22_Table(crop)[i][2] * C22_Multiplier(level) + 5
                /\ C22_Table(crop)[i][2] * C22_Multiplier(level) + 5 < 10 * q + 10
                /\ pestTypes[i].probability = IF q > 95 THEN 95 ELSE q
          /\ pestTypes[i].probability >= 0 /\ pestTypes[i].probability <= 95

\* C22: pestTypes of assessPestRisk is the table entry of the crop type
\* (wheat, rice, cotton, corn, tomato; default for any other or missing one),
\* in table order, each probability the base probability times the multiplier
\* of the risk level (1.3, 1.0, 0.6), rounded and capped at 95
C22_PestTypes ==
    Called("assessPestRisk") =>
        /\ C22_Matches(ret.pestTypes, cropType, ret.riskLevel)
        /\ \A crop \in {"rice", "cotton", "corn", "tomato", "soybean", ""} :
              C22_Matches(getPredictedPests(crop, weatherData, ret.riskLevel),
                          crop, ret.riskLevel)

C22_Witness ==
    /\ Called("assessPestRisk")
    /\ cropType = "wheat"
    /\ ret.riskLevel = "high"
    /\ ret.pestTypes = <<[name |-> "Aphids", probability |-> 59],
                         [name |-> "Rust", probability |-> 46]>>

C23_BaselineTips ==
    <<"Regular field scouting for early detection.",
      "Maintain field hygiene - remove crop residues.",
      "Use pheromone traps for insect monitoring.">>

C23_ExtraTips ==
    {"Consider preventive insecticide application.",
     "Install light traps for nocturnal pests.",
     "Monitor pest population thresholds before spraying."}

C23_Has(seq, x) == \E i \in DOMAIN seq : seq[i] = x

\* C23: every assessPestRisk result has the three baseline tips and the two
\* baseline treatments (cultural, biological); at 'low' it has nothing else;
\* the additional tips and the organic treatment appear only at medium or
\* high, and the chemical treatment only at high
C23_TieredAdvice ==
    Called("assessPestRisk") =>
        LET tips == ret.preventionTips
            methods == [i \in DOMAIN ret.treatments |-> ret.treatments[i].method]
        IN  /\ \A i \in 1..3 : C23_Has(tips, C23_BaselineTips[i])
            /\ C23_Has(methods, "cultural") /\ C23_Has(methods, "biological")
            /\ ret.riskLevel = "low" =>
                  /\ tips = C23_BaselineTips
                  /\ methods = <<"cultural", "biological">>
            /\ \A i \in DOMAIN tips :
                  \/ C23_Has(C23_BaselineTips, tips[i])
                  \/ (tips[i] \in C23_ExtraTips /\ ret.riskLevel \in {"medium", "high"})
            /\ \A i \in DOMAIN methods :
                  \/ methods[i] \in {"cultural", "biological"}
                  \/ (methods[i] = "organic" /\ ret.riskLevel \in {"medium", "high"})
                  \/ (methods[i] = "chemical" /\ ret.riskLevel = "high")

C23_Witness ==
    /\ Called("assessPestRisk")
    /\ ret.riskLevel = "medium"
    /\ Len(ret.preventionTips) = 4
    /\ ret.treatments = <<[method |-> "cultural"], [method |-> "biological"],
                          [method |-> "organic"]>>

C24_HasProblem(type) == \E i \in DOMAIN ret.problems : ret.problems[i].type = type

C24_When(cond, lines) == IF cond THEN lines ELSE <<>>

\* the crop-specific line of the rule table
C24_CropLine ==
    IF cropType = "wheat" /\ ret.indices.ndvi < 5000
    THEN <<"wheat: Consider nitrogen top-dressing to boost growth.">>
    ELSE IF cropType = "rice" /\ ret.indices.ndvi < 5000
    THEN <<"rice: Consider nitrogen top-dressing to boost growth.">>
    ELSE IF cropType = "cotton" /\ ret.indices.ndmi < 1000
    THEN <<"Cotton: Ensure consistent moisture during boll development.">>
    ELSE IF cropType = "sugarcane" /\ ret.indices.ndvi > 7000
    THEN <<"Sugarcane: Good canopy development. Monitor for borer infestation.">>
    ELSE IF cropType = "potato" /\ ret.indices.bsi > 2000
    THEN <<"potato: Sparse canopy detected. Check for nutrient deficiency.">>
    ELSE IF cropType = "tomato" /\ ret.indices.bsi > 2000
    THEN <<"tomato: Sparse canopy detected. Check for nutrient deficiency.">>
    ELSE IF cropType = "onion" /\ ret.indices.bsi > 2000
    THEN <<"onion: Sparse canopy detected. Check for nutrient deficiency.">>
    ELSE <<>>

\* C24: the recommendations of analyzeCropHealth are, in order: irrigation and
\* mulch advice iff a water_stress problem was found; inspection and
\* fertilizer advice iff a low_ndvi problem was found; the maintain message
\* iff NDVI>0.6 and NDMI>0.2; drainage advice iff rainfall>30; heat-stress
\* advice iff temperature>35; then at most one crop-specific line (wheat or
\* rice iff NDVI<0.5, cotton iff NDMI<0.1, sugarcane iff NDVI>0.7, potato,
\* tomato or onion iff BSI>0.2) and nothing for any other crop type
C24_Recommendations ==
    Called("analyzeCropHealth") =>
        ret.recommendations
        = C24_When(C24_HasProblem("water_stress"),
                   <<"Increase irrigation frequency. Consider drip irrigation for water efficiency.",
                     "Apply mulch to retain soil moisture.">>)
          \o C24_When(C24_HasProblem("low_ndvi"),
                      <<"Conduct field inspection for disease or pest damage.",
                        "Consider foliar application of balanced NPK fertilizer.">>)
          \o C24_When(ret.indices.ndvi > 6000 /\ ret.indices.ndmi > 2000,
                      <<"Crop is healthy. Maintain current management practices.">>)
          \o C24_When(weatherData.present /\ weatherData.rainfall > 30,
                      <<"Heavy rainfall expected. Ensure proper field drainage.">>)
          \o C24_When(weatherData.present /\ weatherData.temperature > 35,
                      <<"Heat stress risk. Schedule irrigation during cooler hours.">>)
          \o C24_CropLine

C24_Witness ==
    /\ Called("analyzeCropHealth")
    /\ cropType = "rice"
    /\ weatherData.present /\ weatherData.rainfall = 31 /\ weatherData.temperature = 36
    /\ Len(ret.recommendations) = 7
    /\ ret.recommendations[7] = "rice: Consider nitrogen top-dressing to boost growth."

\* C25: when the pest risk assessment computed by a pipeline request has
\* riskLevel 'high', that request stores an urgent 'pest' alert next to the
\* health alerts
C25_PipelinePestAlert ==
    (Called("pipelineAnalyzeRoute") /\ ret.code = 200
        /\ ret.pestRisk.riskLevel = "high") =>
        \E i \in DOMAIN db.alerts :
            db.alerts[i].type = "pest" /\ db.alerts[i].priority = "urgent"

C26_Alerts == generateAlerts("farm1", "user1", AssessmentOf(ret))

\* C26: the unclamped health-score sum of analyzeCropHealth lies in [33,100],
\* so the clamp leaves it unchanged and healthScore >= 33; the status is never
\* 'critical' and generateAlerts on the result never emits the 'Critical Crop
\* Health' alert
C26_ScoreFloor ==
    Called("analyzeCropHealth") =>
        /\ HealthScoreSum(ret.indices, weatherData, cropType) \in 33..100
        /\ ret.healthScore = HealthScoreSum(ret.indices, weatherData, cropType)
        /\ ret.healthScore >= 33
        /\ ret.status # "critical"
        /\ \A i \in DOMAIN C26_Alerts : C26_Alerts[i].title # <<"Critical Crop Health">>

C26_Witness ==
    /\ Called("analyzeCropHealth")
    /\ weatherData.present
    /\ weatherData.temperature > 40 /\ weatherData.humidity > 90
    /\ ret.healthScore = 33
    /\ ret.status = "poor"
    /\ C26_Alerts[1].title = <<"Low Crop Health">>

C27_Alerts == generateAlerts("farm2", "user1", AssessmentOf(ret))

\* C27 as stated: if analyzeCropHealth reports status 'healthy', generateAlerts
\* on that assessment returns no alert of priority 'urgent'
C27_HealthyNoUrgent ==
    (Called("analyzeCropHealth") /\ ret.status = "healthy") =>
        \A i \in DOMAIN C27_Alerts : C27_Alerts[i].priority # "urgent"

C27_HighProblem(type) ==
    \E j \in DOMAIN ret.problems :
        ret.problems[j].type = type /\ ret.problems[j].severity = "high"

\* C27, amended: if analyzeCropHealth reports status 'healthy', generateAlerts
\* on that assessment returns no score alert ('Critical Crop Health' or 'Low
\* Crop Health'), and every alert it returns is the urgent alert of a
\* high-severity water_stress (type 'soil') or bare_soil (type 'health')
\* problem of the assessment, never one of a low_ndvi problem
C27_HealthyOnlyProblemAlerts ==
    (Called("analyzeCropHealth") /\ ret.status = "healthy") =>
        \A i \in DOMAIN C27_Alerts :
            /\ C27_Alerts[i].title \notin {<<"Critical Crop Health">>,
                                           <<"Low Crop Health">>}
            /\ C27_Alerts[i].priority = "urgent"
            /\ \/ /\ C27_Alerts[i].type = "soil"
                  /\ C27_Alerts[i].title = <<"Alert: ", "water stress">>
                  /\ C27_HighProblem("water_stress")
               \/ /\ C27_Alerts[i].type = "health"
                  /\ C27_Alerts[i].title = <<"Alert: ", "bare soil">>
                  /\ C27_HighProblem("bare_soil")

C27_Witness ==
    /\ Called("analyzeCropHealth")
    /\ ret.status = "healthy"
    /\ ret.healthScore = 88
    /\ Len(C27_Alerts) = 1
    /\ C27_Alerts[1].priority = "urgent"
    /\ C27_Alerts[1].type = "soil"

\* C28: every result of analyzeCropHealth can be persisted by the crop-health
\* analyze route: each problem type is in the CropHealth problemZones.issue
\* enum, so a request that has created its SatelliteData record (and has its
\* weather) also creates the CropHealth record and updates the farm's
\* healthScore, and does not end in the 500 response
C28_ProblemsPersisted ==
    (Called("cropHealthAnalyzeRoute") /\ db.satelliteData /\ weatherData.present) =>
        /\ \A i \in DOMAIN identifyProblems(computeAllIndices(bandData), weatherData) :
              identifyProblems(computeAllIndices(bandData), weatherData)[i].type
                  \in IssueEnum
        /\ ret.code = 200
        /\ db.latestHealth.present
        /\ db.farmHealthScore = ret.healthScore

C29_Maintain == "Crop is healthy. Maintain current management practices."

C29_Recommended(text) ==
    \E i \in DOMAIN ret.recommendations : ret.recommendations[i] = text

\* C29: whenever analyzeCropHealth recommends 'Crop is healthy. Maintain
\* current management practices.', the status is 'healthy' (score at least 75)
\* and there is neither a water_stress nor a low_ndvi problem, so none of the
\* irrigation, mulch, inspection and fertilizer lines accompanies it
C29_MaintainOnlyWhenHealthy ==
    (Called("analyzeCropHealth") /\ C29_Recommended(C29_Maintain)) =>
        /\ ret.status = "healthy"
        /\ ret.healthScore >= 75
        /\ \A i \in DOMAIN ret.problems :
              ret.problems[i].type \notin {"water_stress", "low_ndvi"}
        /\ ~C29_Recommended("Increase irrigation frequency. Consider drip irrigation for water efficiency.")
        /\ ~C29_Recommended("Apply mulch to retain soil moisture.")
        /\ ~C29_Recommended("Conduct field inspection for disease or pest damage.")
        /\ ~C29_Recommended("Consider foliar application of balanced NPK fertilizer.")

C29_Witness ==
    /\ Called("analyzeCropHealth")
    /\ C29_Recommended(C29_Maintain)
    /\ weatherData.present
    /\ weatherData.temperature > 40 /\ weatherData.humidity > 90
    /\ ret.healthScore = 85
    /\ ret.status = "healthy"

C21_Alone(name, farmId, a) ==
    CASE name = "computeAllIndices" -> computeAllIndices(a.bands)
      [] name = "analyzeCropHealth" ->
            analyzeCropHealth(a.bands, a.weather, CropOf(farmId))
      [] name = "analyzeSoil" -> analyzeSoil(a.bands, a.soil)
      [] name = "assessPestRisk" ->
            assessPestRisk([present |-> TRUE, indices |-> a.health.indices],
                           a.weather, CropOf(farmId), "flowering")
      [] name = "generateAlerts" ->
            generateAlerts(farmId, "user1", AssessmentOf(a.health))

\* the value each farm holds from its last call is the value of that call run
\* alone on the arguments it was given, whatever was called or overwritten since
C21_RunAlone ==
    \A farmId \in FarmIds :
        farms[farmId].last.op \in AnalysisCalls =>
            farms[farmId].last.value
                = C21_Alone(farms[farmId].last.op, farmId, farms[farmId].last.args)

\* computeAllIndices on identical BandSamples returned identical IndexSets
C21_SameIndices ==
    \A f, g \in FarmIds :
        (/\ farms[f].last.op = "computeAllIndices"
         /\ farms[g].last.op = "computeAllIndices"
         /\ farms[f].last.args.bands = farms[g].last.args.bands)
            => farms[f].last.value = farms[g].last.value

\* a call leaves every caller's objects as they were and replaces the held
\* value of at most one farm; overwriting an input replaces no held value
C21_Frame ==
    /\ op' \in AnalysisCalls =>
          \A farmId \in FarmIds : farms'[farmId].args = farms[farmId].args
    /\ \A farmId \in FarmIds :
          farms'[farmId].last # farms[farmId].last =>
              /\ op' \in AnalysisCalls
              /\ \A other \in FarmIds \ {farmId} : farms'[other] = farms[other]

====
